---- MODULE Spec2Model ----
(***************************************************************************)
(* State-machine model of the py_netgear_plus device client:               *)
(* NetgearSwitchConnector (custom_components/netgear_plus/py_netgear_plus/ *)
(* __init__.py), PageFetcher (fetcher.py), the model registry (models.py)  *)
(* and the parsers of PageParser the connector calls (parsers.py).         *)
(*                                                                         *)
(* Every public connector operation is one action.  What the device        *)
(* answers to the requests of an operation is held in the variable device; *)
(* the device actions draw it from the bounded response universes below,   *)
(* so an operation is a function of the connector state and the device.    *)
(* Python values are encoded as strings where the code mixes types         *)
(* ("True"/"False"/"None").                                                *)
(***************************************************************************)
EXTENDS Integers, Sequences, FiniteSets, TLC

VARIABLES
    switch_model,                  \* NetgearSwitchConnector.switch_model (MODEL_NAME, "" = base class)
    ports,                         \* NetgearSwitchConnector.ports
    poe_ports,                     \* NetgearSwitchConnector.poe_ports
    previous_data,                 \* NetgearSwitchConnector._previous_data
    previous_timestamp,            \* NetgearSwitchConnector._previous_timestamp
    loaded_switch_metadata,        \* NetgearSwitchConnector._loaded_switch_metadata
    client_hash,                   \* NetgearSwitchConnector._client_hash
    gambit,                        \* NetgearSwitchConnector._gambit
    authentication_failure_count,  \* NetgearSwitchConnector._authentication_failure_count
    login_page_response,           \* PageFetcher._login_page_response
    cookie,                        \* PageFetcher._cookie_name / _cookie_content
    offline_mode,                  \* PageFetcher.offline_mode
    now,                           \* the clock read by time.perf_counter()
    soft_failures,                 \* history: soft authentication failures since the last successful login
    device,                        \* what the switch (or the replay directory) answers
    api_lock,                      \* HomeAssistantNetgearSwitch.api_lock is held
    executor,                      \* the connector calls running as executor jobs of the adapter
    last                           \* the last operation: its inputs, its requests and how it ended

vars ==
    <<switch_model, ports, poe_ports, previous_data, previous_timestamp,
      loaded_switch_metadata, client_hash, gambit, authentication_failure_count,
      login_page_response, cookie, offline_mode, now, soft_failures, device, api_lock,
      executor, last>>

None == "None"

(***************************************************************************)
(* models.py: the registry.  A template is kept as the set of connector    *)
(* attributes its params read (literal params need no attribute).          *)
(***************************************************************************)
MODELS ==
  <<
    [MODEL_NAME |-> "GS105E", SUPPORTED |-> TRUE, PORTS |-> 5, POE_PORTS |-> {},
     ALLOWED_COOKIE_TYPES |-> <<"SID">>, CRYPT_FUNCTION |-> "merge_hash",
     AUTODETECT_TEMPLATES |-> <<"login.cgi", "login.htm", "index.htm">>,
     LOGIN_TEMPLATE |-> "login.cgi", SWITCH_INFO_TEMPLATES |-> <<{}, {}>>,
     PORT_STATUS_TEMPLATES |-> <<{"_client_hash"}>>,
     PORT_STATISTICS_TEMPLATES |-> <<{"_client_hash"}, {"_client_hash"}>>,
     POE_PORT_CONFIG_TEMPLATES |-> <<>>, POE_PORT_STATUS_TEMPLATES |-> <<>>,
     SWITCH_LED_TEMPLATES |-> <<>>, SWITCH_POE_PORT_TEMPLATES |-> <<>>,
     CYCLE_POE_PORT_TEMPLATES |-> <<>>, SWITCH_REBOOT_TEMPLATES |-> <<>>,
     LOGOUT_TEMPLATES |-> <<{}>>,
     CHECKS_AND_RESULTS |-> <<[func |-> "check_login_form_rand", expected |-> {"True"}], [func |-> "parse_login_title_tag", expected |-> {"GS105E"}]>>],
    [MODEL_NAME |-> "GS105PE", SUPPORTED |-> TRUE, PORTS |-> 5, POE_PORTS |-> {},
     ALLOWED_COOKIE_TYPES |-> <<"SID">>, CRYPT_FUNCTION |-> "merge_hash",
     AUTODETECT_TEMPLATES |-> <<"login.cgi", "login.htm", "index.htm">>,
     LOGIN_TEMPLATE |-> "login.cgi", SWITCH_INFO_TEMPLATES |-> <<{}, {}>>,
     PORT_STATUS_TEMPLATES |-> <<{}>>, PORT_STATISTICS_TEMPLATES |-> <<{}>>,
     POE_PORT_CONFIG_TEMPLATES |-> <<>>, POE_PORT_STATUS_TEMPLATES |-> <<>>,
     SWITCH_LED_TEMPLATES |-> <<>>, SWITCH_POE_PORT_TEMPLATES |-> <<>>,
     CYCLE_POE_PORT_TEMPLATES |-> <<>>, SWITCH_REBOOT_TEMPLATES |-> <<>>,
     LOGOUT_TEMPLATES |-> <<{}>>,
     CHECKS_AND_RESULTS |-> <<[func |-> "check_login_form_rand", expected |-> {"True"}], [func |-> "parse_login_title_tag", expected |-> {"GS105PE"}]>>],
    [MODEL_NAME |-> "GS105Ev2", SUPPORTED |-> TRUE, PORTS |-> 5, POE_PORTS |-> {},
     ALLOWED_COOKIE_TYPES |-> <<"SID">>, CRYPT_FUNCTION |-> "merge_hash",
     AUTODETECT_TEMPLATES |-> <<"login.cgi", "login.htm", "index.htm">>,
     LOGIN_TEMPLATE |-> "login.cgi", SWITCH_INFO_TEMPLATES |-> <<{}, {}>>,
     PORT_STATUS_TEMPLATES |-> <<{}>>, PORT_STATISTICS_TEMPLATES |-> <<{}>>,
     POE_PORT_CONFIG_TEMPLATES |-> <<>>, POE_PORT_STATUS_TEMPLATES |-> <<>>,
     SWITCH_LED_TEMPLATES |-> <<>>, SWITCH_POE_PORT_TEMPLATES |-> <<>>,
     CYCLE_POE_PORT_TEMPLATES |-> <<>>, SWITCH_REBOOT_TEMPLATES |-> <<>>,
     LOGOUT_TEMPLATES |-> <<{}>>,
     CHECKS_AND_RESULTS |-> <<[func |-> "check_login_form_rand", expected |-> {"True"}], [func |-> "parse_login_title_tag", expected |-> {"GS105Ev2"}]>>],
    [MODEL_NAME |-> "GS108E", SUPPORTED |-> TRUE, PORTS |-> 8, POE_PORTS |-> {},
     ALLOWED_COOKIE_TYPES |-> <<"GS108SID", "SID">>, CRYPT_FUNCTION |-> "merge_hash",
     AUTODETECT_TEMPLATES |-> <<"login.cgi", "login.htm", "index.htm">>,
     LOGIN_TEMPLATE |-> "login.cgi", SWITCH_INFO_TEMPLATES |-> <<{}, {}>>,
     PORT_STATUS_TEMPLATES |-> <<{"_client_hash"}>>,
     PORT_STATISTICS_TEMPLATES |-> <<{"_client_hash"}, {"_client_hash"}>>,
     POE_PORT_CONFIG_TEMPLATES |-> <<>>, POE_PORT_STATUS_TEMPLATES |-> <<>>,
     SWITCH_LED_TEMPLATES |-> <<>>, SWITCH_POE_PORT_TEMPLATES |-> <<>>,
     CYCLE_POE_PORT_TEMPLATES |-> <<>>, SWITCH_REBOOT_TEMPLATES |-> <<>>,
     LOGOUT_TEMPLATES |-> <<{}>>,
     CHECKS_AND_RESULTS |-> <<[func |-> "check_login_form_rand", expected |-> {"True"}], [func |-> "parse_login_title_tag", expected |-> {"GS108E"}], [func |-> "parse_login_switchinfo_tag", expected |-> {"GS308E - 8-Port Gigabit Ethernet Smart Managed Plus Switch"}]>>],
    [MODEL_NAME |-> "GS108Ev3", SUPPORTED |-> TRUE, PORTS |-> 8, POE_PORTS |-> {},
     ALLOWED_COOKIE_TYPES |-> <<"GS108SID", "SID">>, CRYPT_FUNCTION |-> "merge_hash",
     AUTODETECT_TEMPLATES |-> <<"login.cgi", "login.htm", "index.htm">>,
     LOGIN_TEMPLATE |-> "login.cgi", SWITCH_INFO_TEMPLATES |-> <<{}, {}>>,
     PORT_STATUS_TEMPLATES |-> <<{"_client_hash"}>>,
     PORT_STATISTICS_TEMPLATES |-> <<{"_client_hash"}, {"_client_hash"}>>,
     POE_PORT_CONFIG_TEMPLATES |-> <<>>, POE_PORT_STATUS_TEMPLATES |-> <<>>,
     SWITCH_LED_TEMPLATES |-> <<>>, SWITCH_POE_PORT_TEMPLATES |-> <<>>,
     CYCLE_POE_PORT_TEMPLATES |-> <<>>, SWITCH_REBOOT_TEMPLATES |-> <<{"_client_hash"}>>,
     LOGOUT_TEMPLATES |-> <<{}>>,
     CHECKS_AND_RESULTS |-> <<[func |-> "check_login_form_rand", expected |-> {"True"}], [func |-> "parse_login_title_tag", expected |-> {"GS108Ev3"}], [func |-> "parse_login_switchinfo_tag", expected |-> {"GS108Ev3 - 8-Port Gigabit ProSAFE Plus Switch", "GS108Ev3 - 8-Port Gigabit Ethernet Smart Managed Plus Switch"}]>>],
    [MODEL_NAME |-> "GS308Ev4", SUPPORTED |-> TRUE, PORTS |-> 8, POE_PORTS |-> {},
     ALLOWED_COOKIE_TYPES |-> <<"SID">>, CRYPT_FUNCTION |-> "merge_hash",
     AUTODETECT_TEMPLATES |-> <<"login.cgi", "login.htm", "index.htm">>,
     LOGIN_TEMPLATE |-> "login.cgi", SWITCH_INFO_TEMPLATES |-> <<{}>>,
     PORT_STATUS_TEMPLATES |-> <<{}>>, PORT_STATISTICS_TEMPLATES |-> <<{"_client_hash"}>>,
     POE_PORT_CONFIG_TEMPLATES |-> <<>>, POE_PORT_STATUS_TEMPLATES |-> <<>>,
     SWITCH_LED_TEMPLATES |-> <<>>, SWITCH_POE_PORT_TEMPLATES |-> <<>>,
     CYCLE_POE_PORT_TEMPLATES |-> <<>>, SWITCH_REBOOT_TEMPLATES |-> <<{"_client_hash"}>>,
     LOGOUT_TEMPLATES |-> <<{}>>,
     CHECKS_AND_RESULTS |-> <<[func |-> "check_login_form_rand", expected |-> {"True"}], [func |-> "parse_login_title_tag", expected |-> {"GS308Ev4"}]>>],
    [MODEL_NAME |-> "GS108Ev4", SUPPORTED |-> TRUE, PORTS |-> 8, POE_PORTS |-> {},
     ALLOWED_COOKIE_TYPES |-> <<"GS108SID", "SID">>, CRYPT_FUNCTION |-> "merge_hash",
     AUTODETECT_TEMPLATES |-> <<"login.cgi", "login.htm", "index.htm">>,
     LOGIN_TEMPLATE |-> "login.cgi", SWITCH_INFO_TEMPLATES |-> <<{}>>,
     PORT_STATUS_TEMPLATES |-> <<{}>>, PORT_STATISTICS_TEMPLATES |-> <<{"_client_hash"}>>,
     POE_PORT_CONFIG_TEMPLATES |-> <<>>, POE_PORT_STATUS_TEMPLATES |-> <<>>,
     SWITCH_LED_TEMPLATES |-> <<>>, SWITCH_POE_PORT_TEMPLATES |-> <<>>,
     CYCLE_POE_PORT_TEMPLATES |-> <<>>, SWITCH_REBOOT_TEMPLATES |-> <<>>,
     LOGOUT_TEMPLATES |-> <<{}>>,
     CHECKS_AND_RESULTS |-> <<[func |-> "check_login_form_rand", expected |-> {"True"}], [func |-> "parse_login_title_tag", expected |-> {"GS108Ev4"}]>>],
    [MODEL_NAME |-> "GS108PEv3", SUPPORTED |-> TRUE, PORTS |-> 8, POE_PORTS |-> {},
     ALLOWED_COOKIE_TYPES |-> <<"GS108SID", "SID">>, CRYPT_FUNCTION |-> "merge_hash",
     AUTODETECT_TEMPLATES |-> <<"login.cgi", "login.htm", "index.htm">>,
     LOGIN_TEMPLATE |-> "login.cgi", SWITCH_INFO_TEMPLATES |-> <<{}, {}>>,
     PORT_STATUS_TEMPLATES |-> <<{"_client_hash"}>>,
     PORT_STATISTICS_TEMPLATES |-> <<{"_client_hash"}, {"_client_hash"}>>,
     POE_PORT_CONFIG_TEMPLATES |-> <<>>, POE_PORT_STATUS_TEMPLATES |-> <<>>,
     SWITCH_LED_TEMPLATES |-> <<>>, SWITCH_POE_PORT_TEMPLATES |-> <<>>,
     CYCLE_POE_PORT_TEMPLATES |-> <<>>, SWITCH_REBOOT_TEMPLATES |-> <<>>,
     LOGOUT_TEMPLATES |-> <<{}>>,
     CHECKS_AND_RESULTS |-> <<[func |-> "check_login_form_rand", expected |-> {"True"}], [func |-> "parse_login_title_tag", expected |-> {"GS108PEv3"}], [func |-> "parse_login_switchinfo_tag", expected |-> {"GS108PEv3 - 8-Port Gigabit ProSAFE Plus Switch", "GS108PEv3 - 8-Port Gigabit Ethernet Smart Managed Plus Switch"}]>>],
    [MODEL_NAME |-> "GS305E", SUPPORTED |-> TRUE, PORTS |-> 5, POE_PORTS |-> {},
     ALLOWED_COOKIE_TYPES |-> <<"SID">>, CRYPT_FUNCTION |-> "merge_hash",
     AUTODETECT_TEMPLATES |-> <<"login.cgi", "login.htm", "index.htm">>,
     LOGIN_TEMPLATE |-> "login.cgi", SWITCH_INFO_TEMPLATES |-> <<{}>>,
     PORT_STATUS_TEMPLATES |-> <<{}>>, PORT_STATISTICS_TEMPLATES |-> <<{}>>,
     POE_PORT_CONFIG_TEMPLATES |-> <<>>, POE_PORT_STATUS_TEMPLATES |-> <<>>,
     SWITCH_LED_TEMPLATES |-> <<>>, SWITCH_POE_PORT_TEMPLATES |-> <<>>,
     CYCLE_POE_PORT_TEMPLATES |-> <<>>, SWITCH_REBOOT_TEMPLATES |-> <<>>,
     LOGOUT_TEMPLATES |-> <<{}>>,
     CHECKS_AND_RESULTS |-> <<[func |-> "check_login_form_rand", expected |-> {"True"}], [func |-> "parse_login_title_tag", expected |-> {"GS305E"}]>>],
    [MODEL_NAME |-> "GS308E", SUPPORTED |-> TRUE, PORTS |-> 8, POE_PORTS |-> {},
     ALLOWED_COOKIE_TYPES |-> <<"GS108SID", "SID">>, CRYPT_FUNCTION |-> "merge_hash",
     AUTODETECT_TEMPLATES |-> <<"login.cgi", "login.htm", "index.htm">>,
     LOGIN_TEMPLATE |-> "login.cgi", SWITCH_INFO_TEMPLATES |-> <<{}, {}>>,
     PORT_STATUS_TEMPLATES |-> <<{"_client_hash"}>>,
     PORT_STATISTICS_TEMPLATES |-> <<{"_client_hash"}, {"_client_hash"}>>,
     POE_PORT_CONFIG_TEMPLATES |-> <<>>, POE_PORT_STATUS_TEMPLATES |-> <<>>,
     SWITCH_LED_TEMPLATES |-> <<>>, SWITCH_POE_PORT_TEMPLATES |-> <<>>,
     CYCLE_POE_PORT_TEMPLATES |-> <<>>, SWITCH_REBOOT_TEMPLATES |-> <<>>,
     LOGOUT_TEMPLATES |-> <<{}>>,
     CHECKS_AND_RESULTS |-> <<[func |-> "check_login_form_rand", expected |-> {"True"}], [func |-> "parse_login_title_tag", expected |-> {"GS308E"}], [func |-> "parse_login_switchinfo_tag", expected |-> {"GS308E - 8-Port Gigabit ProSAFE Plus Switch", "GS308E - 8-Port Gigabit Ethernet Smart Managed Plus Switch"}]>>],
    [MODEL_NAME |-> "GS110EMX", SUPPORTED |-> TRUE, PORTS |-> 10, POE_PORTS |-> {},
     ALLOWED_COOKIE_TYPES |-> <<"gambitCookie">>, CRYPT_FUNCTION |-> "merge_hash",
     AUTODETECT_TEMPLATES |-> <<"login.cgi", "login.htm", "index.htm">>,
     LOGIN_TEMPLATE |-> "homepage.html", SWITCH_INFO_TEMPLATES |-> <<{"_gambit"}>>,
     PORT_STATUS_TEMPLATES |-> <<{"_gambit"}>>, PORT_STATISTICS_TEMPLATES |-> <<{"_gambit"}>>,
     POE_PORT_CONFIG_TEMPLATES |-> <<>>, POE_PORT_STATUS_TEMPLATES |-> <<>>,
     SWITCH_LED_TEMPLATES |-> <<>>, SWITCH_POE_PORT_TEMPLATES |-> <<>>,
     CYCLE_POE_PORT_TEMPLATES |-> <<>>, SWITCH_REBOOT_TEMPLATES |-> <<>>,
     LOGOUT_TEMPLATES |-> <<{"_gambit"}>>,
     CHECKS_AND_RESULTS |-> <<[func |-> "check_login_form_rand", expected |-> {"True"}], [func |-> "parse_login_title_tag", expected |-> {"GS110EMX"}]>>],
    [MODEL_NAME |-> "XS512EM", SUPPORTED |-> TRUE, PORTS |-> 12, POE_PORTS |-> {},
     ALLOWED_COOKIE_TYPES |-> <<"gambitCookie">>, CRYPT_FUNCTION |-> "merge_hash",
     AUTODETECT_TEMPLATES |-> <<"login.cgi", "login.htm", "index.htm">>,
     LOGIN_TEMPLATE |-> "homepage.html", SWITCH_INFO_TEMPLATES |-> <<{"_gambit"}>>,
     PORT_STATUS_TEMPLATES |-> <<{"_gambit"}>>, PORT_STATISTICS_TEMPLATES |-> <<{"_gambit"}>>,
     POE_PORT_CONFIG_TEMPLATES |-> <<>>, POE_PORT_STATUS_TEMPLATES |-> <<>>,
     SWITCH_LED_TEMPLATES |-> <<>>, SWITCH_POE_PORT_TEMPLATES |-> <<>>,
     CYCLE_POE_PORT_TEMPLATES |-> <<>>, SWITCH_REBOOT_TEMPLATES |-> <<>>,
     LOGOUT_TEMPLATES |-> <<{"_gambit"}>>,
     CHECKS_AND_RESULTS |-> <<[func |-> "check_login_form_rand", expected |-> {"True"}], [func |-> "parse_login_title_tag", expected |-> {"XS512EM"}]>>],
    [MODEL_NAME |-> "GS305EP", SUPPORTED |-> TRUE, PORTS |-> 5, POE_PORTS |-> 1..4,
     ALLOWED_COOKIE_TYPES |-> <<"SID">>, CRYPT_FUNCTION |-> "merge_hash",
     AUTODETECT_TEMPLATES |-> <<"login.cgi", "login.htm", "index.htm">>,
     LOGIN_TEMPLATE |-> "login.cgi", SWITCH_INFO_TEMPLATES |-> <<{}>>,
     PORT_STATUS_TEMPLATES |-> <<{}>>, PORT_STATISTICS_TEMPLATES |-> <<{}>>,
     POE_PORT_CONFIG_TEMPLATES |-> <<{}>>, POE_PORT_STATUS_TEMPLATES |-> <<{}>>,
     SWITCH_LED_TEMPLATES |-> <<{"_client_hash"}>>,
     SWITCH_POE_PORT_TEMPLATES |-> <<{"_client_hash"}>>,
     CYCLE_POE_PORT_TEMPLATES |-> <<{"_client_hash"}>>,
     SWITCH_REBOOT_TEMPLATES |-> <<{"_client_hash"}>>, LOGOUT_TEMPLATES |-> <<{}>>,
     CHECKS_AND_RESULTS |-> <<[func |-> "check_login_form_rand", expected |-> {"True"}], [func |-> "parse_login_title_tag", expected |-> {"GS305EP"}]>>],
    [MODEL_NAME |-> "GS305EPP", SUPPORTED |-> TRUE, PORTS |-> 5, POE_PORTS |-> 1..4,
     ALLOWED_COOKIE_TYPES |-> <<"SID">>, CRYPT_FUNCTION |-> "merge_hash",
     AUTODETECT_TEMPLATES |-> <<"login.cgi", "login.htm", "index.htm">>,
     LOGIN_TEMPLATE |-> "login.cgi", SWITCH_INFO_TEMPLATES |-> <<{}>>,
     PORT_STATUS_TEMPLATES |-> <<{}>>, PORT_STATISTICS_TEMPLATES |-> <<{}>>,
     POE_PORT_CONFIG_TEMPLATES |-> <<{}>>, POE_PORT_STATUS_TEMPLATES |-> <<{}>>,
     SWITCH_LED_TEMPLATES |-> <<{"_client_hash"}>>,
     SWITCH_POE_PORT_TEMPLATES |-> <<{"_client_hash"}>>,
     CYCLE_POE_PORT_TEMPLATES |-> <<{"_client_hash"}>>,
     SWITCH_REBOOT_TEMPLATES |-> <<{"_client_hash"}>>, LOGOUT_TEMPLATES |-> <<{}>>,
     CHECKS_AND_RESULTS |-> <<[func |-> "check_login_form_rand", expected |-> {"True"}], [func |-> "parse_login_title_tag", expected |-> {"GS305EPP"}]>>],
    [MODEL_NAME |-> "GS308EPP", SUPPORTED |-> TRUE, PORTS |-> 8, POE_PORTS |-> 1..8,
     ALLOWED_COOKIE_TYPES |-> <<"SID">>, CRYPT_FUNCTION |-> "merge_hash",
     AUTODETECT_TEMPLATES |-> <<"login.cgi", "login.htm", "index.htm">>,
     LOGIN_TEMPLATE |-> "login.cgi", SWITCH_INFO_TEMPLATES |-> <<{}>>,
     PORT_STATUS_TEMPLATES |-> <<{}>>, PORT_STATISTICS_TEMPLATES |-> <<{}>>,
     POE_PORT_CONFIG_TEMPLATES |-> <<{}>>, POE_PORT_STATUS_TEMPLATES |-> <<{}>>,
     SWITCH_LED_TEMPLATES |-> <<{"_client_hash"}>>,
     SWITCH_POE_PORT_TEMPLATES |-> <<{"_client_hash"}>>,
     CYCLE_POE_PORT_TEMPLATES |-> <<{"_client_hash"}>>,
     SWITCH_REBOOT_TEMPLATES |-> <<{"_client_hash"}>>, LOGOUT_TEMPLATES |-> <<{}>>,
     CHECKS_AND_RESULTS |-> <<[func |-> "check_login_form_rand", expected |-> {"True"}], [func |-> "parse_login_title_tag", expected |-> {"GS308EPP"}]>>],
    [MODEL_NAME |-> "GS308EP", SUPPORTED |-> TRUE, PORTS |-> 8, POE_PORTS |-> 1..8,
     ALLOWED_COOKIE_TYPES |-> <<"SID">>, CRYPT_FUNCTION |-> "merge_hash",
     AUTODETECT_TEMPLATES |-> <<"login.cgi", "login.htm", "index.htm">>,
     LOGIN_TEMPLATE |-> "login.cgi", SWITCH_INFO_TEMPLATES |-> <<{}>>,
     PORT_STATUS_TEMPLATES |-> <<{}>>, PORT_STATISTICS_TEMPLATES |-> <<{}>>,
     POE_PORT_CONFIG_TEMPLATES |-> <<{}>>, POE_PORT_STATUS_TEMPLATES |-> <<{}>>,
     SWITCH_LED_TEMPLATES |-> <<{"_client_hash"}>>,
     SWITCH_POE_PORT_TEMPLATES |-> <<{"_client_hash"}>>,
     CYCLE_POE_PORT_TEMPLATES |-> <<{"_client_hash"}>>,
     SWITCH_REBOOT_TEMPLATES |-> <<{"_client_hash"}>>, LOGOUT_TEMPLATES |-> <<{}>>,
     CHECKS_AND_RESULTS |-> <<[func |-> "check_login_form_rand", expected |-> {"True"}], [func |-> "parse_login_title_tag", expected |-> {"GS308EP"}]>>],
    [MODEL_NAME |-> "GS316EPP", SUPPORTED |-> TRUE, PORTS |-> 16, POE_PORTS |-> 1..15,
     ALLOWED_COOKIE_TYPES |-> <<"gambitCookie">>, CRYPT_FUNCTION |-> "merge_hash",
     AUTODETECT_TEMPLATES |-> <<"login.cgi", "login.htm", "index.htm">>,
     LOGIN_TEMPLATE |-> "homepage.html", SWITCH_INFO_TEMPLATES |-> <<{"_gambit"}>>,
     PORT_STATUS_TEMPLATES |-> <<{"_gambit"}>>, PORT_STATISTICS_TEMPLATES |-> <<{"_gambit"}>>,
     POE_PORT_CONFIG_TEMPLATES |-> <<{"_gambit"}>>, POE_PORT_STATUS_TEMPLATES |-> <<{"_gambit"}>>,
     SWITCH_LED_TEMPLATES |-> <<{"_gambit"}>>, SWITCH_POE_PORT_TEMPLATES |-> <<{"_gambit"}>>,
     CYCLE_POE_PORT_TEMPLATES |-> <<{"_gambit"}>>, SWITCH_REBOOT_TEMPLATES |-> <<>>,
     LOGOUT_TEMPLATES |-> <<{"_gambit"}>>,
     CHECKS_AND_RESULTS |-> <<[func |-> "check_login_form_rand", expected |-> {"True"}], [func |-> "parse_login_title_tag", expected |-> {"GS316EPP"}]>>],
    [MODEL_NAME |-> "GS316EP", SUPPORTED |-> TRUE, PORTS |-> 16, POE_PORTS |-> 1..15,
     ALLOWED_COOKIE_TYPES |-> <<"gambitCookie">>, CRYPT_FUNCTION |-> "merge_hash",
     AUTODETECT_TEMPLATES |-> <<"login.cgi", "login.htm", "index.htm">>,
     LOGIN_TEMPLATE |-> "homepage.html", SWITCH_INFO_TEMPLATES |-> <<{"_gambit"}>>,
     PORT_STATUS_TEMPLATES |-> <<{"_gambit"}>>, PORT_STATISTICS_TEMPLATES |-> <<{"_gambit"}>>,
     POE_PORT_CONFIG_TEMPLATES |-> <<{"_gambit"}>>, POE_PORT_STATUS_TEMPLATES |-> <<{"_gambit"}>>,
     SWITCH_LED_TEMPLATES |-> <<{"_gambit"}>>, SWITCH_POE_PORT_TEMPLATES |-> <<{"_gambit"}>>,
     CYCLE_POE_PORT_TEMPLATES |-> <<{"_gambit"}>>, SWITCH_REBOOT_TEMPLATES |-> <<>>,
     LOGOUT_TEMPLATES |-> <<{"_gambit"}>>,
     CHECKS_AND_RESULTS |-> <<[func |-> "check_login_form_rand", expected |-> {"True"}], [func |-> "parse_login_title_tag", expected |-> {"GS316EP"}]>>],
    [MODEL_NAME |-> "JGS516PE", SUPPORTED |-> TRUE, PORTS |-> 16, POE_PORTS |-> {},
     ALLOWED_COOKIE_TYPES |-> <<"SID">>, CRYPT_FUNCTION |-> "hex_hmac_md5",
     AUTODETECT_TEMPLATES |-> <<"login.cgi", "login.htm", "index.htm">>,
     LOGIN_TEMPLATE |-> "login.htm", SWITCH_INFO_TEMPLATES |-> <<{}>>,
     PORT_STATUS_TEMPLATES |-> <<{}>>, PORT_STATISTICS_TEMPLATES |-> <<{}>>,
     POE_PORT_CONFIG_TEMPLATES |-> <<>>, POE_PORT_STATUS_TEMPLATES |-> <<>>,
     SWITCH_LED_TEMPLATES |-> <<>>, SWITCH_POE_PORT_TEMPLATES |-> <<>>,
     CYCLE_POE_PORT_TEMPLATES |-> <<>>, SWITCH_REBOOT_TEMPLATES |-> <<>>,
     LOGOUT_TEMPLATES |-> <<{}>>,
     CHECKS_AND_RESULTS |-> <<[func |-> "check_login_form_rand", expected |-> {"False"}], [func |-> "parse_first_script_tag", expected |-> {"JGS516PE"}]>>],
    [MODEL_NAME |-> "JGS524Ev2", SUPPORTED |-> TRUE, PORTS |-> 24, POE_PORTS |-> {},
     ALLOWED_COOKIE_TYPES |-> <<"SID">>, CRYPT_FUNCTION |-> "hex_hmac_md5",
     AUTODETECT_TEMPLATES |-> <<"login.cgi", "login.htm", "index.htm">>,
     LOGIN_TEMPLATE |-> "login.htm", SWITCH_INFO_TEMPLATES |-> <<{}>>,
     PORT_STATUS_TEMPLATES |-> <<{}>>, PORT_STATISTICS_TEMPLATES |-> <<{}>>,
     POE_PORT_CONFIG_TEMPLATES |-> <<>>, POE_PORT_STATUS_TEMPLATES |-> <<>>,
     SWITCH_LED_TEMPLATES |-> <<>>, SWITCH_POE_PORT_TEMPLATES |-> <<>>,
     CYCLE_POE_PORT_TEMPLATES |-> <<>>, SWITCH_REBOOT_TEMPLATES |-> <<>>,
     LOGOUT_TEMPLATES |-> <<{}>>,
     CHECKS_AND_RESULTS |-> <<[func |-> "check_login_form_rand", expected |-> {"False"}], [func |-> "parse_first_script_tag", expected |-> {"JGS524Ev2"}]>>],
    [MODEL_NAME |-> "GS116Ev2", SUPPORTED |-> TRUE, PORTS |-> 16, POE_PORTS |-> {},
     ALLOWED_COOKIE_TYPES |-> <<"SID">>, CRYPT_FUNCTION |-> "hex_hmac_md5",
     AUTODETECT_TEMPLATES |-> <<"login.cgi", "login.htm", "index.htm">>,
     LOGIN_TEMPLATE |-> "login.htm", SWITCH_INFO_TEMPLATES |-> <<{}>>,
     PORT_STATUS_TEMPLATES |-> <<{}>>, PORT_STATISTICS_TEMPLATES |-> <<{}>>,
     POE_PORT_CONFIG_TEMPLATES |-> <<>>, POE_PORT_STATUS_TEMPLATES |-> <<>>,
     SWITCH_LED_TEMPLATES |-> <<>>, SWITCH_POE_PORT_TEMPLATES |-> <<>>,
     CYCLE_POE_PORT_TEMPLATES |-> <<>>, SWITCH_REBOOT_TEMPLATES |-> <<>>,
     LOGOUT_TEMPLATES |-> <<{}>>,
     CHECKS_AND_RESULTS |-> <<[func |-> "check_login_form_rand", expected |-> {"False"}], [func |-> "parse_first_script_tag", expected |-> {"GS116Ev2"}]>>],
    [MODEL_NAME |-> "MS108EUP", SUPPORTED |-> TRUE, PORTS |-> 8, POE_PORTS |-> 1..8,
     ALLOWED_COOKIE_TYPES |-> <<"gambitCookie">>, CRYPT_FUNCTION |-> "merge_hash",
     AUTODETECT_TEMPLATES |-> <<"login">>, LOGIN_TEMPLATE |-> "homepage.html",
     SWITCH_INFO_TEMPLATES |-> <<{"_gambit"}>>, PORT_STATUS_TEMPLATES |-> <<{"_gambit"}>>,
     PORT_STATISTICS_TEMPLATES |-> <<{"_gambit"}>>, POE_PORT_CONFIG_TEMPLATES |-> <<{"_gambit"}>>,
     POE_PORT_STATUS_TEMPLATES |-> <<{"_gambit"}>>, SWITCH_LED_TEMPLATES |-> <<{"_gambit"}>>,
     SWITCH_POE_PORT_TEMPLATES |-> <<{"_gambit"}>>, CYCLE_POE_PORT_TEMPLATES |-> <<{"_gambit"}>>,
     SWITCH_REBOOT_TEMPLATES |-> <<>>, LOGOUT_TEMPLATES |-> <<{"_gambit"}>>,
     CHECKS_AND_RESULTS |-> <<[func |-> "check_login_form_rand", expected |-> {"True"}], [func |-> "parse_login_title_tag", expected |-> {"MS108EUP"}]>>]
  >>
(***************************************************************************)
(* Bounds                                                                  *)
(***************************************************************************)
\* soft authentication failures in a row get_login_cookie is followed over
MaxSoftFailures == 4

\* soft authentication failures in a row the re-logins of the other
\* operations are followed over
MaxReloginFailures == 1


\* the latest time a poll is followed to
MaxTime == 6

ModelNames ==
    LET Names(models) == {models[i].MODEL_NAME : i \in DOMAIN models}
    IN  Names(MODELS)

Model(name) ==
    LET Named(models) ==
            models[CHOOSE i \in DOMAIN models : models[i].MODEL_NAME = name]
    IN  Named(MODELS)

\* AutodetectedSwitchModel: the base class the connector starts with
AutodetectedSwitchModel ==
    [MODEL_NAME |-> "", SUPPORTED |-> TRUE, PORTS |-> 0, POE_PORTS |-> {},
     ALLOWED_COOKIE_TYPES |-> <<"SID">>, CRYPT_FUNCTION |-> "merge_hash",
     AUTODETECT_TEMPLATES |-> <<"login.cgi", "login.htm", "index.htm">>,
     LOGIN_TEMPLATE |-> "login.cgi",
     SWITCH_INFO_TEMPLATES |-> <<>>, PORT_STATUS_TEMPLATES |-> <<>>,
     PORT_STATISTICS_TEMPLATES |-> <<>>, POE_PORT_CONFIG_TEMPLATES |-> <<>>,
     POE_PORT_STATUS_TEMPLATES |-> <<>>, SWITCH_LED_TEMPLATES |-> <<>>,
     SWITCH_POE_PORT_TEMPLATES |-> <<>>, CYCLE_POE_PORT_TEMPLATES |-> <<>>,
     SWITCH_REBOOT_TEMPLATES |-> <<>>, LOGOUT_TEMPLATES |-> <<{}>>,
     CHECKS_AND_RESULTS |-> <<>>]

\* a model class that is only partially supported: no class of MODELS sets
\* SUPPORTED = False, so this is a subclass of GS305EP that does, which
\* a caller assigns to the attribute switch_model
PartiallySupported ==
    "GS305EP (SUPPORTED = False)"

\* the class held by the attribute switch_model
SwitchModel(name) ==
    LET Class(mdl) ==
            IF name = PartiallySupported THEN [mdl EXCEPT !.SUPPORTED = FALSE]
            ELSE mdl
    IN  IF name = "" THEN AutodetectedSwitchModel
        ELSE Class(Model(IF name = PartiallySupported THEN "GS305EP" ELSE name))

\* AutodetectedSwitchModel.AUTODETECT_TEMPLATES by page name: login.cgi,
\* login.htm and / (DEFAULT_PAGE index.htm)
AUTODETECT_TEMPLATES ==
    AutodetectedSwitchModel.AUTODETECT_TEMPLATES

ProbeUrls ==
    {AUTODETECT_TEMPLATES[i] : i \in DOMAIN AUTODETECT_TEMPLATES}

MAX_AUTHENTICATION_FAILURES ==
    3

SWITCH_STATES ==
    {"on", "off"}

(***************************************************************************)
(* What a device can answer.  A response has a kind (an HTTP answer or a   *)
(* connection error), a status code, the cookies it sets and a page.  A    *)
(* page holds what the code reads from the HTML: the rand input of the     *)
(* login form, the raw <title> text, the text of div.switchInfo, the model *)
(* name in the first script, whether an inline script redirects to         *)
(* /wmi/login, the Gambit input, the visible text, the stripped body, the   *)
(* hash input, the rows of the port status table and the counters of the   *)
(* port statistics table.  Every 200 answer has a non-empty body.          *)
(* Requests that time out are left out of the universes: the code handles  *)
(* the empty requests.Response object of a timeout inside the library.     *)
(***************************************************************************)
SwitchInfoGS308ESmart ==
    "GS308E - 8-Port Gigabit Ethernet Smart Managed Plus Switch"

\* the counters of a port statistics page: one entry per row
NoStatistics ==
    [rx |-> <<>>, tx |-> <<>>, crc |-> <<>>]

NoPage ==
    [rand |-> None, title |-> None, switchinfo |-> None, script |-> None,
     redirect_script |-> FALSE, gambit |-> None, text |-> "", body |-> "",
     hash |-> None, port_status |-> <<>>, statistics |-> NoStatistics]

RedirectPage ==
    [NoPage EXCEPT !.title = "Redirect to Login"]

ConnectionError ==
    [kind |-> "connection_error", status_code |-> 0, cookies |-> {}, page |-> NoPage]

NotFound ==
    [kind |-> "http", status_code |-> 404, cookies |-> {}, page |-> NoPage]

Ok(page) ==
    [kind |-> "http", status_code |-> 200, cookies |-> {}, page |-> page]

OkWithCookie(name) ==
    [kind |-> "http", status_code |-> 200, cookies |-> {name}, page |-> NoPage]

\* the login pages served on the probe URLs
Rand ==
    "12345678"

LoginPage(rand, title, switchinfo) ==
    [NoPage EXCEPT !.rand = rand, !.title = title, !.switchinfo = switchinfo]

ProbePages ==
    { LoginPage(Rand, "NETGEAR GS308E", SwitchInfoGS308ESmart),
      LoginPage(Rand, "NETGEAR GS308E", None),
      LoginPage(Rand, "GS305EP", None),
      LoginPage(None, "GS305EP", None),
      LoginPage(Rand, "Redirect to Login", None) }

ProbeResponses ==
    {ConnectionError, NotFound} \cup {Ok(p) : p \in ProbePages}

\* the page on which the checks of a model pass
Expected(mdl, func) ==
    LET checks == SelectSeq(mdl.CHECKS_AND_RESULTS, LAMBDA c : c.func = func)
    IN  IF Len(checks) = 0 THEN None
        ELSE CHOOSE x \in checks[1].expected : TRUE

ModelPage(name) ==
    LET mdl == Model(name)
    IN  [NoPage EXCEPT
           !.rand = IF Expected(mdl, "check_login_form_rand") = "True"
                    THEN Rand ELSE None,
           !.title = Expected(mdl, "parse_login_title_tag"),
           !.switchinfo = Expected(mdl, "parse_login_switchinfo_tag"),
           !.script = Expected(mdl, "parse_first_script_tag")]

\* the switch info page
ClientHash ==
    "5f1c"

InfoPage ==
    [NoPage EXCEPT !.hash = ClientHash]

\* the answers to the login POST
InvalidPasswordText ==
    "the password is invalid."

MaximumSessionsText ==
    "the maximum number of sessions has been reached."

LoginResponses ==
    { ConnectionError,
      NotFound,
      OkWithCookie("SID"),
      OkWithCookie("GS108SID"),
      Ok([NoPage EXCEPT !.gambit = "9f3a"]),
      Ok([NoPage EXCEPT !.text = InvalidPasswordText]),
      Ok([NoPage EXCEPT !.text = MaximumSessionsText]),
      Ok(RedirectPage) }

\* the answers to a data or control request
SUCCESS ==
    "SUCCESS"

PageResponses ==
    { ConnectionError,
      NotFound,
      Ok([NoPage EXCEPT !.body = SUCCESS]),
      Ok([NoPage EXCEPT !.body = "FAILED"]),
      Ok(RedirectPage) }

(***************************************************************************)
(* parsers.py: the autodetection checks of PageParser                      *)
(***************************************************************************)
\* str.replace("NETGEAR", "").strip() on the raw titles
StripNetgear(text) ==
    CASE text = "NETGEAR GS308E" -> "GS308E"
      [] OTHER -> text

\* str.lower() on the raw titles, as far as _is_authenticated compares it
Lower(text) ==
    CASE text = "Redirect to Login" -> "redirect to login"
      [] OTHER -> text

\* word in response_text, for the lowercased texts of the login answers
InText(word, text) ==
    CASE text = MaximumSessionsText -> word \in {"maximum", "session"}
      [] OTHER -> FALSE

parse_login_form_rand(page) ==
    IF page.rand # None /\ page.rand # "" THEN page.rand ELSE None

check_login_form_rand(page) ==
    IF parse_login_form_rand(page) # None THEN "True" ELSE "False"

parse_login_title_tag(page) ==
    IF page.title # None /\ page.title # "" THEN StripNetgear(page.title) ELSE None

parse_login_switchinfo_tag(page) ==
    page.switchinfo

parse_first_script_tag(page) ==
    page.script

parse_gambit_tag(page) ==
    IF page.gambit # None /\ page.gambit # "" THEN page.gambit ELSE None

\* getattr(self._page_parser, func_name)(response)
CallParser(func_name, page) ==
    CASE func_name = "check_login_form_rand" -> check_login_form_rand(page)
      [] func_name = "parse_login_title_tag" -> parse_login_title_tag(page)
      [] func_name = "parse_login_switchinfo_tag" -> parse_login_switchinfo_tag(page)
      [] func_name = "parse_first_script_tag" -> parse_first_script_tag(page)

(***************************************************************************)
(* fetcher.py                                                              *)
(***************************************************************************)
\* PageFetcher._is_authenticated
is_authenticated(page) ==
    ~ \/ (page.title # None /\ Lower(page.title) = "redirect to login")
      \/ page.redirect_script

\* PageFetcher.get_page_from_file: the file exists when the replay
\* directory holds a page for the URL; a BaseResponse carries no cookies
get_page_from_file(resp) ==
    IF resp.kind = "http" /\ resp.status_code = 200
    THEN [exc |-> "", status_code |-> 200, cookies |-> {}, page |-> resp.page]
    ELSE [exc |-> "", status_code |-> 404, cookies |-> {}, page |-> NoPage]

\* PageFetcher.request without its offline branch
request_network(offline, resp) ==
    IF resp.kind = "connection_error"
    THEN [exc |-> "PageFetcherConnectionError", status_code |-> 0,
          cookies |-> {}, page |-> NoPage]
    ELSE IF resp.status_code = 200 /\ ~is_authenticated(resp.page)
    THEN [exc |-> "NotLoggedInError", status_code |-> 200,
          cookies |-> resp.cookies, page |-> resp.page]
    ELSE [exc |-> "", status_code |-> resp.status_code,
          cookies |-> resp.cookies, page |-> resp.page]

\* PageFetcher.request: the exception raised ("" = none) and the response
request(offline, resp) ==
    IF offline THEN get_page_from_file(resp)
    ELSE IF resp.kind = "connection_error"
         THEN [exc |-> "PageFetcherConnectionError", status_code |-> 0,
               cookies |-> {}, page |-> NoPage]
    ELSE IF resp.status_code = 200 /\ ~is_authenticated(resp.page)
         THEN [exc |-> "NotLoggedInError", status_code |-> 200,
               cookies |-> resp.cookies, page |-> resp.page]
    ELSE [exc |-> "", status_code |-> resp.status_code,
          cookies |-> resp.cookies, page |-> resp.page]

\* PageFetcher.has_ok_status
has_ok_status(response) ==
    response.status_code = 200

(***************************************************************************)
(* __init__.py: NetgearSwitchConnector.  The connector and its page        *)
(* fetcher are read into one record c by the operators below; an operator  *)
(* returns the connector it leaves behind, how the call ended (outcome     *)
(* "return" or the name of the exception raised), the value returned and   *)
(* the requests it made.                                                   *)
(***************************************************************************)
Connector ==
    [switch_model |-> switch_model, ports |-> ports, poe_ports |-> poe_ports,
     previous_data |-> previous_data, previous_timestamp |-> previous_timestamp,
     loaded_switch_metadata |-> loaded_switch_metadata,
     client_hash |-> client_hash, gambit |-> gambit,
     authentication_failure_count |-> authentication_failure_count,
     login_page_response |-> login_page_response, cookie |-> cookie,
     offline_mode |-> offline_mode, soft_failures |-> soft_failures]

SetConnector(c) ==
    /\ switch_model' = c.switch_model
    /\ ports' = c.ports
    /\ poe_ports' = c.poe_ports
    /\ previous_data' = c.previous_data
    /\ previous_timestamp' = c.previous_timestamp
    /\ loaded_switch_metadata' = c.loaded_switch_metadata
    /\ client_hash' = c.client_hash
    /\ gambit' = c.gambit
    /\ authentication_failure_count' = c.authentication_failure_count
    /\ login_page_response' = c.login_page_response
    /\ cookie' = c.cookie
    /\ offline_mode' = c.offline_mode
    /\ soft_failures' = c.soft_failures

\* a response object as the connector holds it; status_code 0 stands for
\* no response object (None)
NoResponse ==
    [status_code |-> 0, cookies |-> {}, page |-> NoPage]

Response(r) ==
    [status_code |-> r.status_code, cookies |-> r.cookies, page |-> r.page]

\* the snapshot of an operation that returns none
NoSnapshot ==
    [k \in {} |-> 0]

\* the result of an operation that made no request
Result(c, outcome, value) ==
    [c |-> c, outcome |-> outcome, value |-> value, response |-> NoResponse,
     requests |-> 0, probes |-> 0, login_page_requests |-> 0,
     login_requests |-> 0, relogins |-> 0, relogin_outcome |-> None,
     info_requests |-> 0, snapshot |-> NoSnapshot]

\* what the device answers on a probe URL; it serves nothing on other URLs
ProbeAnswer(d, url) ==
    IF url \in DOMAIN d.probe THEN d.probe[url] ELSE NotFound

\* func_result in expected_results
check_successful(check, page) ==
    CallParser(check.func, page) \in check.expected

\* any() instead of all()
AllChecksPassed_any(mdl, page) ==
    \E i \in DOMAIN mdl.CHECKS_AND_RESULTS :
        check_successful(mdl.CHECKS_AND_RESULTS[i], page)

\* all(passed_checks_by_model[mdl_name].values())
AllChecksPassed(mdl, page) ==
    \A i \in DOMAIN mdl.CHECKS_AND_RESULTS :
        check_successful(mdl.CHECKS_AND_RESULTS[i], page)

\* the checks of mdl that append it because "check_login_switchinfo_tag
\* beats them all"
SwitchinfoOverrides(mdl, page) ==
    SelectSeq(mdl.CHECKS_AND_RESULTS,
              LAMBDA c : c.func = "check_login_switchinfo_tag"
                         /\ check_successful(c, page))

\* what one iteration of "for mdl_cls in MODELS" appends to matched_models
MatchesOfModel(mdl, page) ==
    LET overrides == SwitchinfoOverrides(mdl, page)
    IN  IF Len(overrides) > 0
        THEN [k \in 1..Len(overrides) |-> mdl.MODEL_NAME]
        ELSE IF AllChecksPassed(mdl, page) THEN <<mdl.MODEL_NAME>> ELSE <<>>

RECURSIVE MatchedFrom(_, _, _)
MatchedFrom(i, models, page) ==
    IF i > Len(models) THEN <<>>
    ELSE MatchesOfModel(models[i], page) \o MatchedFrom(i + 1, models, page)

\* matched_models after the loop over MODELS
matched_models(page) ==
    MatchedFrom(1, MODELS, page)

\* [1] * n instead of [0] * n
Zeros_ones(n) ==
    [i \in 1..n |-> 1]

Zeros(n) ==
    [i \in 1..n |-> 0]

\* _previous_data with its arrays sized by the PoE ports of the model
previous_data_by_poe_ports(mdl) ==
    [traffic_tx |-> Zeros(Cardinality(mdl.POE_PORTS)),
     traffic_rx |-> Zeros(Cardinality(mdl.POE_PORTS)),
     crc_errors |-> Zeros(Cardinality(mdl.POE_PORTS)),
     speed_io |-> Zeros(Cardinality(mdl.POE_PORTS)),
     sum_rx |-> Zeros(Cardinality(mdl.POE_PORTS)),
     sum_tx |-> Zeros(Cardinality(mdl.POE_PORTS))]

\* NetgearSwitchConnector._set_instance_attributes_by_model: _previous_data
previous_data_by_model(mdl) ==
    [traffic_tx |-> Zeros(mdl.PORTS), traffic_rx |-> Zeros(mdl.PORTS),
     crc_errors |-> Zeros(mdl.PORTS), speed_io |-> Zeros(mdl.PORTS),
     sum_rx |-> Zeros(mdl.PORTS), sum_tx |-> Zeros(mdl.PORTS)]

\* NetgearSwitchConnector._set_instance_attributes_by_model
set_instance_attributes_by_model(c, name) ==
    LET Attributes(switch_model_cls) ==
            [c EXCEPT !.switch_model = name,
                      !.ports = switch_model_cls.PORTS,
                      !.poe_ports = switch_model_cls.POE_PORTS,
                      !.previous_data = previous_data_by_model(switch_model_cls)]
    IN  Attributes(Model(name))

\* The loop of autodetect_model over AUTODETECT_TEMPLATES from template i on
RECURSIVE AutodetectFrom(_, _, _)
AutodetectFrom(i, c, d) ==
    IF i > Len(AUTODETECT_TEMPLATES)
    THEN [Result(c, "SwitchModelNotDetectedError", None) EXCEPT !.probes = i - 1]
    ELSE LET Matched(matched) ==
                 IF Len(matched) = 1
                 THEN [Result(set_instance_attributes_by_model(c, matched[1]),
                              "return", matched[1]) EXCEPT !.probes = i]
                 ELSE IF Len(matched) > 1
                 THEN [Result(c, "MultipleModelsDetectedError", None)
                           EXCEPT !.probes = i]
                 ELSE AutodetectFrom(i + 1, c, d)
             Probed(r) ==
                 IF r.exc = "NotLoggedInError"
                 THEN [Result(c, "NotLoggedInError", None) EXCEPT !.probes = i]
                 ELSE IF r.exc = "" /\ has_ok_status(r)
                 THEN Matched(matched_models(r.page))
                 ELSE AutodetectFrom(i + 1, c, d)
         IN  Probed(request(c.offline_mode,
                            ProbeAnswer(d, AUTODETECT_TEMPLATES[i])))

\* NetgearSwitchConnector.autodetect_model
AutodetectModel(c, d) ==
    AutodetectFrom(1, c, d)

\* NetgearSwitchConnector.get_unique_id
GetUniqueId(c, d) ==
    IF c.switch_model = ""
    THEN LET WithModel(res) ==
                 IF res.outcome = "return"
                 THEN [res EXCEPT !.value = res.c.switch_model]
                 ELSE res
         IN  WithModel(AutodetectModel(c, d))
    ELSE Result(c, "return", c.switch_model)

(***************************************************************************)
(* Login: fetcher.py check_login_url / get_login_response and __init__.py  *)
(* get_login_cookie / _handle_soft_authentication_failure.  The password   *)
(* is non-empty, so the login template's _password_hash is never empty.    *)
(***************************************************************************)
\* PageFetcher.check_login_url: the loop over the model's AUTODETECT_TEMPLATES
\* from template i on, lpr being self._login_page_response
RECURSIVE CheckLoginUrlFrom(_, _, _, _)
CheckLoginUrlFrom(i, c, d, lpr) ==
    LET Loaded(new) ==
            IF has_ok_status(new)
            THEN [exc |-> "", lpr |-> new, requests |-> i]
            ELSE CheckLoginUrlFrom(i + 1, c, d, new)
        Answered(answer) ==
            Loaded(IF c.offline_mode
                   THEN Response(get_page_from_file(answer))
                   ELSE IF answer.kind = "connection_error"
                        THEN lpr
                        ELSE Response(answer))
        Template(templates) ==
            IF i > Len(templates)
            THEN [exc |-> "PageNotLoadedError", lpr |-> lpr, requests |-> i - 1]
            ELSE Answered(ProbeAnswer(d, templates[i]))
    IN  Template(SwitchModel(c.switch_model).AUTODETECT_TEMPLATES)

check_login_url(c, d) ==
    CheckLoginUrlFrom(1, c, d, c.login_page_response)

\* what answers the login POST: the device, or in offline mode the file
\* named like the login URL, which is the file of the probe URL of that name
LoginAnswer(c, d) ==
    LET url == SwitchModel(c.switch_model).LOGIN_TEMPLATE
    IN  IF c.offline_mode /\ url \in DOMAIN d.probe THEN d.probe[url] ELSE d.login

\* PageFetcher.get_login_response: the exception raised and the response
get_login_response(c, d) ==
    IF c.switch_model = ""
    THEN [exc |-> "SwitchModelNotDetectedError", response |-> NoResponse, requests |-> 0]
    ELSE IF SwitchModel(c.switch_model).CRYPT_FUNCTION \notin {"merge_hash", "hex_hmac_md5"}
    THEN [exc |-> "InvalidCryptFunctionError", response |-> NoResponse, requests |-> 0]
    ELSE LET Answered(r) ==
                 IF r.exc # ""
                 THEN [exc |-> r.exc, response |-> NoResponse, requests |-> 1]
                 ELSE IF r.status_code # 200
                 THEN [exc |-> "LoginFailedError", response |-> NoResponse,
                       requests |-> 1]
                 ELSE [exc |-> "", response |-> Response(r), requests |-> 1]
         IN  Answered(request(c.offline_mode, LoginAnswer(c, d)))

\* _handle_soft_authentication_failure raising only when the count exceeds
\* MAX_AUTHENTICATION_FAILURES
handle_soft_authentication_failure_late(c, response) ==
    LET cleared == [c EXCEPT !.login_page_response = NoResponse]
        count == c.authentication_failure_count + 1
    IN  IF InText("maximum", response.page.text) /\ InText("session", response.page.text)
        THEN [c |-> cleared, exc |-> "MaxSessionsError"]
        ELSE [c |-> [cleared EXCEPT !.authentication_failure_count = count],
              exc |-> IF count > MAX_AUTHENTICATION_FAILURES
                      THEN "LoginFailedError" ELSE ""]

\* _handle_soft_authentication_failure counting the failure before it looks
\* for the maximum sessions message
handle_soft_authentication_failure_counting(c, response) ==
    LET count == c.authentication_failure_count + 1
        counted == [c EXCEPT !.login_page_response = NoResponse,
                             !.authentication_failure_count = count]
    IN  [c |-> counted,
         exc |-> IF count >= MAX_AUTHENTICATION_FAILURES THEN "LoginFailedError"
                 ELSE IF InText("maximum", response.page.text)
                         /\ InText("session", response.page.text)
                 THEN "MaxSessionsError"
                 ELSE ""]

\* _handle_soft_authentication_failure starting the count again when it
\* raises LoginFailedError
handle_soft_authentication_failure_resetting(c, response) ==
    LET cleared == [c EXCEPT !.login_page_response = NoResponse]
        count == c.authentication_failure_count + 1
    IN  IF InText("maximum", response.page.text) /\ InText("session", response.page.text)
        THEN [c |-> cleared, exc |-> "MaxSessionsError"]
        ELSE IF count >= MAX_AUTHENTICATION_FAILURES
        THEN [c |-> [cleared EXCEPT !.authentication_failure_count = 0],
              exc |-> "LoginFailedError"]
        ELSE [c |-> [cleared EXCEPT !.authentication_failure_count = count],
              exc |-> ""]

\* NetgearSwitchConnector._handle_soft_authentication_failure: the connector
\* it leaves and the exception it raises ("" = none)
handle_soft_authentication_failure(c, response) ==
    LET cleared == [c EXCEPT !.login_page_response = NoResponse]
        count == c.authentication_failure_count + 1
    IN  IF InText("maximum", response.page.text) /\ InText("session", response.page.text)
        THEN [c |-> cleared, exc |-> "MaxSessionsError"]
        ELSE [c |-> [cleared EXCEPT !.authentication_failure_count = count],
              exc |-> IF count >= MAX_AUTHENTICATION_FAILURES
                      THEN "LoginFailedError" ELSE ""]

\* the first of the model's ALLOWED_COOKIE_TYPES the response carries
FoundCookie(mdl, response) ==
    LET found == SelectSeq(mdl.ALLOWED_COOKIE_TYPES, LAMBDA ct : ct \in response.cookies)
    IN  IF Len(found) > 0 THEN found[1] ELSE None

\* History of the logins, kept beside the connector: the soft
\* authentication failures (login answered, neither Gambit tag nor allowed
\* cookie found) since the last successful login, and those of them whose
\* answer does not report that the maximum number of sessions is reached
NoSoftFailures ==
    [total |-> 0, counted |-> 0]

SoftFailure(history, response) ==
    [total |-> history.total + 1,
     counted |-> IF InText("maximum", response.page.text)
                    /\ InText("session", response.page.text)
                 THEN history.counted ELSE history.counted + 1]

\* get_login_cookie from the login POST on, the model being selected and
\* the login page cached
LoginWithPage(c, d) ==
    LET Handled(soft) ==
            IF soft.exc # ""
            THEN [Result(soft.c, soft.exc, None) EXCEPT !.login_requests = 1]
            ELSE [Result(soft.c, "return", "False") EXCEPT !.login_requests = 1]
        LoggedIn(cookie_name, with_gambit) ==
            [Result([with_gambit EXCEPT !.cookie = cookie_name,
                                        !.authentication_failure_count = 0,
                                        !.soft_failures = NoSoftFailures],
                    "return", "True") EXCEPT !.login_requests = 1]
        Answered(login, mdl, tag, with_gambit, ct) ==
            IF login.exc # ""
            THEN [Result(c, login.exc, None) EXCEPT !.login_requests = login.requests]
            ELSE IF tag # None
            THEN LoggedIn(mdl.ALLOWED_COOKIE_TYPES[1], with_gambit)
            ELSE IF ct # None
            THEN LoggedIn(ct, with_gambit)
            ELSE Handled(handle_soft_authentication_failure(
                     [with_gambit EXCEPT !.soft_failures =
                          SoftFailure(c.soft_failures, login.response)],
                     login.response))
        Parsed(login, mdl, tag) ==
            Answered(login, mdl, tag, [c EXCEPT !.gambit = tag],
                     FoundCookie(mdl, login.response))
        Posted(login, mdl) ==
            Parsed(login, mdl, parse_gambit_tag(login.response.page))
    IN  Posted(get_login_response(c, d), SwitchModel(c.switch_model))

\* get_login_cookie after the login page check chk
LoginChecked(c, d, chk) ==
    IF chk.exc # ""
    THEN [Result([c EXCEPT !.login_page_response = chk.lpr], chk.exc, None)
              EXCEPT !.login_page_requests = chk.requests]
    ELSE [LoginWithPage([c EXCEPT !.login_page_response = chk.lpr], d)
              EXCEPT !.login_page_requests = chk.requests]

\* get_login_cookie from the login page check on, the model being selected
LoginWithModel(c, d) ==
    LoginChecked(c, d, IF ~has_ok_status(c.login_page_response)
                       THEN check_login_url(c, d)
                       ELSE [exc |-> "", lpr |-> c.login_page_response,
                             requests |-> 0])

\* get_login_cookie after the autodetection it starts with when no model
\* is selected
LoginDetected(detected, d) ==
    IF detected.outcome # "return"
    THEN detected
    ELSE [LoginWithModel(detected.c, d) EXCEPT !.probes = detected.probes]

\* NetgearSwitchConnector.get_login_cookie
GetLoginCookie(c, d) ==
    LoginDetected(IF c.switch_model = ""
                  THEN AutodetectModel(c, d)
                  ELSE Result(c, "return", c.switch_model), d)

(***************************************************************************)
(* __init__.py: fetch_page.  first is what the device answers to the       *)
(* request, retry what it answers when the request is repeated after a     *)
(* re-login.                                                               *)
(***************************************************************************)
status_code_no_response ==
    444

\* the BaseResponse fetch_page returns after a connection error
NoResponseStatus ==
    [status_code |-> status_code_no_response, cookies |-> {}, page |-> NoPage]

\* fetch_page, second pass of "for attempt in range(2)"
FetchRetry(login, retry) ==
    LET Repeated(r, res) ==
            IF r.exc = "NotLoggedInError"
            THEN [res EXCEPT !.outcome = "LoginFailedError", !.value = None]
            ELSE IF r.exc = "PageFetcherConnectionError"
            THEN [res EXCEPT !.outcome = "return", !.value = None,
                             !.response = NoResponseStatus]
            ELSE [res EXCEPT !.outcome = "return", !.value = None,
                             !.response = Response(r)]
    IN  Repeated(request(FALSE, retry),
                 [login EXCEPT !.relogins = 1, !.relogin_outcome = "True",
                               !.requests = 2])

\* what a call of get_login_cookie made from an except NotLoggedInError
\* block came to: "True", "False" or the exception it raised
ReloginOutcome(login) ==
    IF login.outcome = "return" THEN login.value ELSE login.outcome

\* NetgearSwitchConnector.fetch_page
FetchPage(c, d, first, retry) ==
    IF c.offline_mode
    THEN [Result(c, "return", None) EXCEPT !.response = Response(get_page_from_file(first))]
    ELSE LET Requested(r, login) ==
                 IF r.exc = "NotLoggedInError"
                 THEN IF login.outcome = "return" /\ login.value = "True"
                      THEN FetchRetry(login, retry)
                      ELSE [login EXCEPT
                              !.outcome = IF login.outcome = "return"
                                          THEN "LoginFailedError" ELSE login.outcome,
                              !.value = None, !.requests = 1, !.relogins = 1,
                              !.relogin_outcome = ReloginOutcome(login)]
                 ELSE IF r.exc = "PageFetcherConnectionError"
                 THEN [Result(c, "return", None) EXCEPT !.response = NoResponseStatus,
                                                        !.requests = 1]
                 ELSE [Result(c, "return", None) EXCEPT !.response = Response(r),
                                                        !.requests = 1]
         IN  Requested(request(FALSE, first), GetLoginCookie(c, d))

\* getattr(source, value) for the attributes the templates name
TemplateAttribute(c, attr) ==
    CASE attr = "_client_hash" -> c.client_hash
      [] attr = "_gambit" -> c.gambit

\* PageFetcher.set_data_from_template raises EmptyTemplateParameterError
TemplateParameterEmpty(c, template) ==
    \E attr \in template : TemplateAttribute(c, attr) = None

\* the try/except NotLoggedInError block shared by switch_leds,
\* switch_poe_port and power_cycle_poe_port: the request, and after a
\* NotLoggedInError a login and the same request once more outside the try
RequestWithRelogin(c, d) ==
    LET Repeated(login, again) ==
            [login EXCEPT
               !.outcome = IF again.exc # "" THEN again.exc ELSE "return",
               !.value = None, !.requests = 2, !.relogins = 1,
               !.relogin_outcome = "True",
               !.response = IF again.exc # "" THEN NoResponse ELSE Response(again)]
        Requested(r, login) ==
            IF r.exc = "NotLoggedInError"
            THEN IF login.outcome = "return" /\ login.value = "True"
                 THEN Repeated(login, request(login.c.offline_mode, d.retry))
                 ELSE [login EXCEPT
                         !.outcome = IF login.outcome = "return"
                                     THEN "LoginFailedError" ELSE login.outcome,
                         !.value = None, !.requests = 1, !.relogins = 1,
                         !.relogin_outcome = ReloginOutcome(login)]
            ELSE IF r.exc # ""
            THEN [Result(c, r.exc, None) EXCEPT !.requests = 1]
            ELSE [Result(c, "return", None) EXCEPT !.requests = 1,
                                                   !.response = Response(r)]
    IN  Requested(request(c.offline_mode, d.answer), GetLoginCookie(c, d))

\* has_ok_status(response) alone, whatever the body
IsSuccess_any_body(response) ==
    has_ok_status(response)

\* has_ok_status(response) and str(response.content.strip()) == "b'SUCCESS'"
IsSuccess(response) ==
    has_ok_status(response) /\ response.page.body = SUCCESS

\* adds the requests and logins of res to those counted in before;
\* info_requests counts the requests for the switch info page
AddRequests(before, res) ==
    [res EXCEPT !.requests = before.requests + res.requests,
                !.probes = before.probes + res.probes,
                !.login_page_requests = before.login_page_requests + res.login_page_requests,
                !.login_requests = before.login_requests + res.login_requests,
                !.relogins = before.relogins + res.relogins,
                !.info_requests = before.info_requests + res.info_requests,
                !.relogin_outcome = IF res.relogins > 0 THEN res.relogin_outcome
                                    ELSE before.relogin_outcome]

\* the loop "for template in templates" of the control operations from
\* template i on; the device answers the request of an operation with
\* d.answer and, when it is repeated after a re-login, with d.retry
RECURSIVE ControlFrom(_, _, _, _, _)
ControlFrom(i, templates, before, d, clear_metadata) ==
    IF i > Len(templates)
    THEN [before EXCEPT !.outcome = "return", !.value = "False"]
    ELSE IF TemplateParameterEmpty(before.c, templates[i])
    THEN [before EXCEPT !.outcome = "EmptyTemplateParameterError", !.value = None]
    ELSE LET Requested(res) ==
                 IF res.outcome # "return"
                 THEN res
                 ELSE IF IsSuccess(res.response)
                 THEN [res EXCEPT !.value = "True",
                                  !.c = IF clear_metadata
                                        THEN [res.c EXCEPT !.loaded_switch_metadata = FALSE]
                                        ELSE res.c]
                 ELSE ControlFrom(i + 1, templates, res, d, clear_metadata)
         IN  Requested(AddRequests(before, RequestWithRelogin(before.c, d)))

\* switch_leds leaving _loaded_switch_metadata as it is
SwitchLeds_keeping(c, d, state) ==
    IF Len(SwitchModel(c.switch_model).SWITCH_LED_TEMPLATES) = 0
    THEN Result(c, "NotImplementedError", None)
    ELSE IF state \notin SWITCH_STATES
    THEN Result(c, "InvalidSwitchStateError", None)
    ELSE ControlFrom(1, SwitchModel(c.switch_model).SWITCH_LED_TEMPLATES,
                     Result(c, "return", None), d, FALSE)

\* NetgearSwitchConnector.switch_leds
SwitchLeds(c, d, state) ==
    IF Len(SwitchModel(c.switch_model).SWITCH_LED_TEMPLATES) = 0
    THEN Result(c, "NotImplementedError", None)
    ELSE IF state \notin SWITCH_STATES
    THEN Result(c, "InvalidSwitchStateError", None)
    ELSE ControlFrom(1, SwitchModel(c.switch_model).SWITCH_LED_TEMPLATES,
                     Result(c, "return", None), d, TRUE)

\* switch_poe_port testing the state after the request is sent
SwitchPoePort_requesting(c, d, poe_port, state) ==
    IF poe_port \notin c.poe_ports
    THEN Result(c, "InvalidPoEPortError", None)
    ELSE IF state \notin SWITCH_STATES
    THEN [ControlFrom(1, SwitchModel(c.switch_model).SWITCH_POE_PORT_TEMPLATES,
                      Result(c, "return", None), d, FALSE)
            EXCEPT !.outcome = "InvalidSwitchStateError", !.value = None]
    ELSE ControlFrom(1, SwitchModel(c.switch_model).SWITCH_POE_PORT_TEMPLATES,
                     Result(c, "return", None), d, FALSE)

\* NetgearSwitchConnector.switch_poe_port
SwitchPoePort(c, d, poe_port, state) ==
    IF state \notin SWITCH_STATES
    THEN Result(c, "InvalidSwitchStateError", None)
    ELSE IF poe_port \in c.poe_ports
    THEN ControlFrom(1, SwitchModel(c.switch_model).SWITCH_POE_PORT_TEMPLATES,
                     Result(c, "return", None), d, FALSE)
    ELSE Result(c, "InvalidPoEPortError", None)

\* NetgearSwitchConnector.power_cycle_poe_port
PowerCyclePoePort(c, d, poe_port) ==
    IF poe_port \in c.poe_ports
    THEN ControlFrom(1, SwitchModel(c.switch_model).CYCLE_POE_PORT_TEMPLATES,
                     Result(c, "return", None), d, FALSE)
    ELSE Result(c, "return", "False")

\* PageParser.parse_reboot_success and its overrides in the GS308Ev4 and
\* GS30xSeries parsers
parse_reboot_success(name, response) ==
    IF name \in {"GS308Ev4", "GS305EP", "GS305EPP", "GS308EP", "GS308EPP"}
    THEN response.status_code \in {200, status_code_no_response}
    ELSE response.status_code = 200

\* the loop "for template in SWITCH_REBOOT_TEMPLATES" of reboot from
\* template i on
RECURSIVE RebootFrom(_, _, _, _)
RebootFrom(i, templates, before, d) ==
    IF i > Len(templates)
    THEN [before EXCEPT !.outcome = "return", !.value = "False"]
    ELSE IF ~before.c.offline_mode /\ TemplateParameterEmpty(before.c, templates[i])
    THEN [before EXCEPT !.outcome = "EmptyTemplateParameterError", !.value = None]
    ELSE LET Fetched(res) ==
                 IF res.outcome # "return"
                 THEN res
                 ELSE IF parse_reboot_success(res.c.switch_model, res.response)
                 THEN [res EXCEPT !.value = "True"]
                 ELSE RebootFrom(i + 1, templates, res, d)
         IN  Fetched(AddRequests(before,
                                 FetchPage(before.c, d, d.answer, d.retry)))

\* NetgearSwitchConnector.reboot: has_reboot_button is an instance method,
\* and before a model is selected switch_model is the class itself
Reboot(c, d) ==
    IF c.switch_model = ""
    THEN Result(c, "TypeError", None)
    ELSE IF Len(SwitchModel(c.switch_model).SWITCH_REBOOT_TEMPLATES) = 0
    THEN Result(c, "return", "False")
    ELSE RebootFrom(1, SwitchModel(c.switch_model).SWITCH_REBOOT_TEMPLATES,
                    Result(c, "return", None), d)

status_code_unauthorized ==
    401

\* the loop "for template in LOGOUT_TEMPLATES" of delete_login_cookie from
\* template i on, before.response being the response so far (a BaseResponse
\* with status 404 at first); after the loop the cookie is cleared.  The
\* device answers the logout request with d.answer.
RECURSIVE LogoutFrom(_, _, _, _)
LogoutFrom(i, templates, before, d) ==
    LET Done(res) ==
            [res EXCEPT !.outcome = "return",
                        !.value = IF res.response.status_code # 404
                                  THEN "True" ELSE "False",
                        !.c.cookie = None]
        Read(res) ==
            IF res.response.status_code # 404
            THEN Done(res)
            ELSE LogoutFrom(i + 1, templates, res, d)
        Requested(r) ==
            Done([before EXCEPT
                    !.requests = before.requests + 1,
                    !.response = IF r.exc = "NotLoggedInError"
                                 THEN [NoResponse EXCEPT
                                         !.status_code = status_code_unauthorized]
                                 ELSE IF r.exc = "PageFetcherConnectionError"
                                 THEN NoResponseStatus
                                 ELSE Response(r)])
    IN  IF i > Len(templates)
        THEN Done(before)
        ELSE IF TemplateParameterEmpty(before.c, templates[i])
        THEN [before EXCEPT !.outcome = "EmptyTemplateParameterError", !.value = None]
        ELSE IF before.c.offline_mode
        THEN Read([before EXCEPT !.response = Response(get_page_from_file(d.answer))])
        ELSE Requested(request(FALSE, d.answer))

\* delete_login_cookie after the autodetection it starts with when no model
\* is selected
LoggedOut(detected, d) ==
    IF detected.outcome # "return"
    THEN detected
    ELSE LogoutFrom(1, SwitchModel(detected.c.switch_model).LOGOUT_TEMPLATES,
                    [detected EXCEPT !.value = None,
                                     !.response = [NoResponse EXCEPT !.status_code = 404]],
                    d)

\* NetgearSwitchConnector.delete_login_cookie
DeleteLoginCookie(c, d) ==
    LoggedOut(IF c.switch_model = "" THEN AutodetectModel(c, d)
              ELSE Result(c, "return", None), d)

\* PageParser.parse_client_hash and its overrides: the EMxSeries and
\* GS31xSeries parsers return None
parse_client_hash(name, page) ==
    IF name \in {"GS110EMX", "XS512EM", "GS316EP", "GS316EPP", "MS108EUP"}
    THEN None
    ELSE page.hash

(***************************************************************************)
(* __init__.py: get_switch_infos and the rate engine _update_current_data. *)
(* Counters and times are integers: the counters read stay below 2^31 and  *)
(* the time between two polls is a whole number of seconds.                *)
(***************************************************************************)
PORT_STATUS_CONNECTED ==
    {"Aktiv", "Up", "UP", "CONNECTED"}

\* hp_max_speed = 1e9, also the factor of hp_max_traffic
hp_max_speed ==
    1000000000

\* max(value, 0) of the low-pass filter left out
Max_unfiltered(a, b) ==
    a

Max(a, b) ==
    IF a >= b THEN a ELSE b

Min(a, b) ==
    IF a <= b THEN a ELSE b

\* int(traffic * sample_factor): int() truncates towards zero
speed(traffic, sample_time) ==
    IF sample_time = 0 THEN traffic
    ELSE IF traffic >= 0 THEN traffic \div sample_time
    ELSE -((-traffic) \div sample_time)

\* the traffic passed on without the high-pass filter
highpass_traffic_missing(traffic, sample_time) ==
    traffic

\* min(traffic, hp_max_traffic) with hp_max_traffic = 1e9 / sample_factor;
\* from 3 s on hp_max_traffic is above every counter read
highpass_traffic(traffic, sample_time) ==
    IF sample_time = 0 THEN Min(traffic, hp_max_speed)
    ELSE IF sample_time < 3 THEN Min(traffic, hp_max_speed * sample_time)
    ELSE traffic

\* GS30xSeries.parse_port_statistics: the counters of the first ports rows;
\* the high words of the counters read are 0
parse_port_statistics(page, n) ==
    IF Len(page.statistics.rx) < n
    THEN [exc |-> "IndexError", rx |-> <<>>, tx |-> <<>>, crc |-> <<>>]
    ELSE [exc |-> "", rx |-> SubSeq(page.statistics.rx, 1, n),
          tx |-> SubSeq(page.statistics.tx, 1, n),
          crc |-> SubSeq(page.statistics.crc, 1, n)]

\* create_page_parser: the parser of a model is the class of PARSERS with
\* the name of the model; the value is the class its parse_port_statistics
\* is inherited from
create_page_parser(name) ==
    CASE name \in {"GS305EP", "GS305EPP", "GS308EP", "GS308EPP"} -> "GS30xSeries"
      [] name \in {"GS105Ev2", "GS105PE", "GS305E"} -> "GS105Ev2"
      [] name \in {"GS108Ev4", "GS308Ev4"} -> "GS108Ev4"
      [] name \in {"GS110EMX", "XS512EM"} -> "EMxSeries"
      [] name \in {"GS316EP", "GS316EPP", "MS108EUP"} -> "GS31xSeries"
      [] name \in {"JGS516PE", "JGS524Ev2", "GS116Ev2"} -> "JGSxxxSeries"
      [] OTHER -> "PageParser"

\* convert_to_int: one integer per element of lst, zeros appended up to
\* output_elems elements; a longer list is returned whole
convert_to_int(lst, output_elems) ==
    IF Len(lst) < output_elems
    THEN lst \o [i \in 1..(output_elems - Len(lst)) |-> 0]
    ELSE lst

\* PageParser.parse_port_statistics_v1 and _v2: the counters of the rows
\* of the table, through convert_to_int
parse_port_statistics_v1(page, n) ==
    [exc |-> "", rx |-> convert_to_int(page.statistics.rx, n),
     tx |-> convert_to_int(page.statistics.tx, n),
     crc |-> convert_to_int(page.statistics.crc, n)]

\* parse_port_statistics of the parser of the model
ParsePortStatistics(name, page, n) ==
    IF create_page_parser(name) = "PageParser"
    THEN parse_port_statistics_v1(page, n)
    ELSE parse_port_statistics(page, n)

\* GS30xSeries.parse_port_status: the status text of the first ports rows
parse_port_status(page, n) ==
    IF Len(page.port_status) < n
    THEN [exc |-> "IndexError", status |-> <<>>]
    ELSE [exc |-> "", status |-> SubSeq(page.port_status, 1, n)]

\* _update_current_data for one port: previous are the arrays of
\* _previous_data, rx, tx and crc the counters parsed, connected whether
\* the port status of this poll is "on"
update_port(previous, rx, tx, crc, p, connected, sample_time) ==
    LET traffic_rx == IF previous.traffic_rx[p] = 0 THEN 0
                      ELSE rx[p] - previous.traffic_rx[p]
        traffic_tx == IF previous.traffic_tx[p] = 0 THEN 0
                      ELSE tx[p] - previous.traffic_tx[p]
        crc_errors == IF previous.crc_errors[p] = 0 THEN 0
                      ELSE crc[p] - previous.crc_errors[p]
        speed_rx == speed(traffic_rx, sample_time)
        speed_tx == speed(traffic_tx, sample_time)
    IN  [traffic_rx |-> highpass_traffic(Max(traffic_rx, 0), sample_time),
         traffic_tx |-> highpass_traffic(Max(traffic_tx, 0), sample_time),
         crc_errors |-> highpass_traffic(Max(crc_errors, 0), sample_time),
         sum_rx |-> IF connected /\ rx[p] < 0 THEN previous.sum_rx[p] ELSE rx[p],
         sum_tx |-> IF connected /\ tx[p] < 0 THEN previous.sum_tx[p] ELSE tx[p],
         speed_rx |-> Min(Max(speed_rx, 0), hp_max_speed),
         speed_tx |-> Min(Max(speed_tx, 0), hp_max_speed),
         speed_io |-> Max(speed_rx + speed_tx, 0)]

\* the sums overwritten with the value of the port instead of "+="
SumOver_assigning(port, key, n) ==
    IF n = 0 THEN 0 ELSE port[n][key]

RECURSIVE SumOver(_, _, _)
SumOver(port, key, n) ==
    IF n = 0 THEN 0 ELSE SumOver(port, key, n - 1) + port[n][key]

\* _update_current_data: the per-port values of current_data, its sums and
\* the arrays it leaves for _previous_data.  The parsers return one list as
\* traffic_rx and sum_rx and one as traffic_tx and sum_tx, so the fallback
\* written into sum_rx is in traffic_rx too; the elements a list has beyond
\* the ports of the model are left as they were parsed.
update_current_data(previous, rx, tx, crc, status, n, sample_time) ==
    LET Updated(port) ==
        [port |-> port,
         sum_port_traffic_rx |-> SumOver(port, "traffic_rx", n),
         sum_port_traffic_tx |-> SumOver(port, "traffic_tx", n),
         sum_port_crc_errors |-> SumOver(port, "crc_errors", n),
         sum_port_speed_rx |-> SumOver(port, "speed_rx", n),
         sum_port_speed_tx |-> SumOver(port, "speed_tx", n),
         sum_port_speed_io |-> SumOver(port, "speed_rx", n) + SumOver(port, "speed_tx", n),
         arrays |-> [traffic_rx |-> [p \in 1..Len(rx) |->
                                       IF p <= n THEN port[p].sum_rx ELSE rx[p]],
                     traffic_tx |-> [p \in 1..Len(tx) |->
                                       IF p <= n THEN port[p].sum_tx ELSE tx[p]],
                     crc_errors |-> crc,
                     speed_io |-> [p \in 1..n |-> port[p].speed_io],
                     sum_rx |-> [p \in 1..Len(rx) |->
                                   IF p <= n THEN port[p].sum_rx ELSE rx[p]],
                     sum_tx |-> [p \in 1..Len(tx) |->
                                   IF p <= n THEN port[p].sum_tx ELSE tx[p]]]]
    IN  Updated([p \in 1..n |->
                   update_port(previous, rx, tx, crc, p, status[p] = "on",
                               sample_time)])

\* the page of a kind the device serves: the switch info page, the port
\* status page, the port statistics page or a PoE page
PageOf(d, kind) ==
    CASE kind = "info" -> InfoPage
      [] kind = "port_status" -> [NoPage EXCEPT !.port_status = d.port_status]
      [] kind = "statistics" -> [NoPage EXCEPT !.statistics = d.statistics]
      [] OTHER -> NoPage

\* what the device answers to the request for a page of a kind
PageAnswer(d, kind) ==
    IF d.failing.kind \in {kind, "all"} THEN d.failing.response ELSE Ok(PageOf(d, kind))

\* the loop of fetch_page_from_templates from template i on; the device
\* answers the request for a page of this kind, also when it is repeated
\* after a re-login, with PageAnswer(d, kind)
RECURSIVE FetchFrom(_, _, _, _, _)
FetchFrom(i, templates, before, d, kind) ==
    IF i > Len(templates)
    THEN [before EXCEPT !.outcome = "PageNotLoadedError", !.value = None]
    ELSE IF ~before.c.offline_mode /\ TemplateParameterEmpty(before.c, templates[i])
    THEN [before EXCEPT !.outcome = "EmptyTemplateParameterError", !.value = None]
    ELSE LET Fetched(res) ==
                 IF res.outcome # "return" \/ has_ok_status(res.response)
                 THEN res
                 ELSE FetchFrom(i + 1, templates, res, d, kind)
         IN  Fetched(AddRequests(before,
                                 FetchPage(before.c, d, PageAnswer(d, kind),
                                           PageAnswer(d, kind))))

\* NetgearSwitchConnector.fetch_page_from_templates
FetchPageFromTemplates(before, d, kind) ==
    LET Templates(mdl) ==
            CASE kind = "info" -> mdl.SWITCH_INFO_TEMPLATES
              [] kind = "port_status" -> mdl.PORT_STATUS_TEMPLATES
              [] kind = "statistics" -> mdl.PORT_STATISTICS_TEMPLATES
              [] kind = "poe_config" -> mdl.POE_PORT_CONFIG_TEMPLATES
              [] kind = "poe_status" -> mdl.POE_PORT_STATUS_TEMPLATES
    IN  FetchFrom(1, Templates(SwitchModel(before.c.switch_model)),
                  [before EXCEPT !.outcome = "return"], d, kind)

\* NetgearSwitchConnector._get_switch_metadata
GetSwitchMetadata(before, d) ==
    LET Fetched(res) ==
            IF res.outcome # "return"
            THEN res
            ELSE [res EXCEPT
                    !.c.client_hash = parse_client_hash(res.c.switch_model,
                                                        res.response.page),
                    !.c.loaded_switch_metadata = TRUE]
        Counted(res) ==
            Fetched([res EXCEPT !.info_requests = res.requests - before.requests])
    IN  Counted(FetchPageFromTemplates(before, d, "info"))

\* NetgearSwitchConnector._get_port_status: value is "on" or "off" by port
GetPortStatus(before, d) ==
    LET Parsed(res, parsed) ==
            IF res.outcome # "return"
            THEN res
            ELSE IF parsed.exc # ""
            THEN [res EXCEPT !.outcome = parsed.exc]
            ELSE IF res.c.ports > 0 /\ Len(parsed.status) # res.c.ports
            THEN [res EXCEPT !.outcome = "InvalidPortStatusError"]
            ELSE [res EXCEPT !.value =
                    [p \in 1..res.c.ports |->
                       IF parsed.status[p] \in PORT_STATUS_CONNECTED
                       THEN "on" ELSE "off"]]
        Fetched(res) ==
            Parsed(res, parse_port_status(res.response.page, res.c.ports))
    IN  Fetched(FetchPageFromTemplates(before, d, "port_status"))

\* _get_poe_port_config and _get_poe_port_status inside their try blocks:
\* PageNotLoadedError and PageFetcherConnectionError are skipped
GetPoePage(before, d, kind) ==
    LET Fetched(res) ==
            IF res.outcome \in {"PageNotLoadedError", "PageFetcherConnectionError"}
            THEN [res EXCEPT !.outcome = "return", !.value = "skipped"]
            ELSE IF res.outcome = "return"
            THEN [res EXCEPT !.value = "fetched"]
            ELSE res
    IN  Fetched(FetchPageFromTemplates(before, d, kind))

\* get_switch_infos from the PoE port status on: res is the port
\* statistics page fetched, parsed its counters, config the outcome of
\* _get_poe_port_config; a model that is not SUPPORTED has returned
\* switch_data before the PoE pages and before _previous_timestamp and
\* _previous_data are set
PollPoeStatus(c, res, parsed, status, start_time, config, poe_status, supported) ==
    LET sample_time == IF c.offline_mode THEN 0 ELSE start_time - c.previous_timestamp
        Snapshot(current_data) ==
            [poe_status EXCEPT
                !.value = None,
                !.c.previous_timestamp = IF supported THEN start_time
                                         ELSE c.previous_timestamp,
                !.c.previous_data = IF supported THEN current_data.arrays
                                    ELSE c.previous_data,
                !.snapshot = [sample_time |-> sample_time,
                              previous |-> c.previous_data,
                              status |-> status,
                              port |-> current_data.port,
                              sum_port_traffic_rx |-> current_data.sum_port_traffic_rx,
                              sum_port_traffic_tx |-> current_data.sum_port_traffic_tx,
                              sum_port_crc_errors |-> current_data.sum_port_crc_errors,
                              sum_port_speed_rx |-> current_data.sum_port_speed_rx,
                              sum_port_speed_tx |-> current_data.sum_port_speed_tx,
                              sum_port_speed_io |-> current_data.sum_port_speed_io,
                              poe_config |-> config.value,
                              poe_status |-> poe_status.value]]
    IN  IF poe_status.outcome # "return"
        THEN poe_status
        ELSE Snapshot(update_current_data(c.previous_data, parsed.rx, parsed.tx,
                                          parsed.crc, status, res.c.ports,
                                          sample_time))

\* get_switch_infos from the PoE port configuration on
PollPoeConfig(c, d, res, parsed, status, start_time, has_poe, config, supported) ==
    IF config.outcome # "return"
    THEN config
    ELSE PollPoeStatus(c, res, parsed, status, start_time, config,
                       IF supported /\ has_poe THEN GetPoePage(config, d, "poe_status")
                       ELSE [config EXCEPT !.value = "none"],
                       supported)

\* get_switch_infos from the parsing of the port statistics page on
PollParsed(c, d, res, parsed, status, start_time, has_poe, supported) ==
    IF res.outcome # "return"
    THEN res
    ELSE IF parsed.exc # ""
    THEN [res EXCEPT !.outcome = parsed.exc]
    ELSE PollPoeConfig(c, d, res, parsed, status, start_time, has_poe,
                       IF supported /\ has_poe THEN GetPoePage(res, d, "poe_config")
                       ELSE [res EXCEPT !.value = "none"],
                       supported)

\* get_switch_infos setting _previous_timestamp before it looks at the port
\* statistics page
PollFetched_stamping(c, d, res, status, start_time) ==
    PollParsed(c, d, [res EXCEPT !.c.previous_timestamp = start_time],
               ParsePortStatistics(SwitchModel(res.c.switch_model).MODEL_NAME,
                                   res.response.page, res.c.ports),
               status, start_time,
               SwitchModel(res.c.switch_model).POE_PORTS # {},
               SwitchModel(res.c.switch_model).SUPPORTED)

\* get_switch_infos after the port statistics page is fetched
PollFetched(c, d, res, status, start_time) ==
    PollParsed(c, d, res, ParsePortStatistics(SwitchModel(res.c.switch_model).MODEL_NAME,
                                   res.response.page, res.c.ports),
               status, start_time,
               SwitchModel(res.c.switch_model).POE_PORTS # {},
               SwitchModel(res.c.switch_model).SUPPORTED)

\* get_switch_infos from the port statistics on: status is the port status
\* of this poll, start_time the time read into _start_time
PollStatistics(c, before, d, status, start_time) ==
    PollFetched(c, d, FetchPageFromTemplates(before, d, "statistics"),
                status, start_time)

\* get_switch_infos from the port status on
PollStatus(d, status, start_time) ==
    IF status.outcome # "return"
    THEN status
    ELSE PollStatistics(status.c, status, d, status.value, start_time)

\* get_switch_infos from the switch metadata on
PollMetadata(d, metadata, start_time) ==
    IF metadata.outcome # "return"
    THEN metadata
    ELSE PollStatus(d, GetPortStatus(metadata, d), start_time)

\* get_switch_infos without the test of _loaded_switch_metadata
PollDetected_refetching(d, detected, start_time) ==
    IF detected.outcome # "return"
    THEN detected
    ELSE PollMetadata(d, GetSwitchMetadata(detected, d), start_time)

\* get_switch_infos after the autodetection it starts with when no model
\* is selected
PollDetected(d, detected, start_time) ==
    IF detected.outcome # "return"
    THEN detected
    ELSE PollMetadata(d, IF detected.c.loaded_switch_metadata THEN detected
                         ELSE GetSwitchMetadata(detected, d), start_time)

\* NetgearSwitchConnector.get_switch_infos
GetSwitchInfos(c, d, start_time) ==
    PollDetected(d, IF c.switch_model = "" THEN AutodetectModel(c, d)
                    ELSE Result(c, "return", None), start_time)
(***************************************************************************)
(* The state machine                                                       *)
(***************************************************************************)
EmptyDict ==
    [k \in {} |-> 0]

\* the record of an operation: its arguments, how it ended and what it sent
Last(op, poe_port, state, res) ==
    [op |-> op, poe_port |-> poe_port, state |-> state,
     outcome |-> res.outcome, value |-> res.value,
     response |-> res.response, requests |-> res.requests,
     probes |-> res.probes, login_page_requests |-> res.login_page_requests,
     login_requests |-> res.login_requests, relogins |-> res.relogins,
     relogin_outcome |-> res.relogin_outcome,
     info_requests |-> res.info_requests, snapshot |-> res.snapshot]

\* the record left by a step that is no connector operation
NoOperation(op) ==
    Last(op, 0, None, Result(Connector, "return", None))

\* a device on which nothing answers: what it answers on the probe URLs,
\* to the login POST, to the request of a control operation and to its
\* repetition, the counters and the port states it shows, and the kind of
\* page it fails to serve
InitialDevice ==
    [probe |-> [url \in ProbeUrls |-> ConnectionError],
     login |-> ConnectionError,
     answer |-> ConnectionError,
     retry |-> ConnectionError,
     statistics |-> NoStatistics,
     port_status |-> <<>>,
     failing |-> [kind |-> "all", response |-> ConnectionError]]

\* NetgearSwitchConnector.__init__ / PageFetcher.__init__
Constructed ==
    [switch_model |-> "", ports |-> 0, poe_ports |-> {},
     previous_data |-> EmptyDict, previous_timestamp |-> 0,
     loaded_switch_metadata |-> FALSE, client_hash |-> None, gambit |-> None,
     authentication_failure_count |-> 0, login_page_response |-> NoResponse,
     cookie |-> None, offline_mode |-> FALSE, soft_failures |-> NoSoftFailures]

\* the adapter holds no lock and runs no job
NoJobs ==
    /\ api_lock = FALSE
    /\ executor = {}

HasConnector(c) ==
    /\ switch_model = c.switch_model
    /\ ports = c.ports
    /\ poe_ports = c.poe_ports
    /\ previous_data = c.previous_data
    /\ previous_timestamp = c.previous_timestamp
    /\ loaded_switch_metadata = c.loaded_switch_metadata
    /\ client_hash = c.client_hash
    /\ gambit = c.gambit
    /\ authentication_failure_count = c.authentication_failure_count
    /\ login_page_response = c.login_page_response
    /\ cookie = c.cookie
    /\ offline_mode = c.offline_mode
    /\ soft_failures = c.soft_failures

Init ==
    /\ HasConnector(Constructed)
    /\ now = 0
    /\ NoJobs
    /\ device = InitialDevice
    /\ last = [op |-> "__init__", poe_port |-> 0, state |-> None,
               outcome |-> "return", value |-> None, response |-> NoResponse,
               requests |-> 0, probes |-> 0, login_page_requests |-> 0,
               login_requests |-> 0, relogins |-> 0, relogin_outcome |-> None,
               info_requests |-> 0, snapshot |-> NoSnapshot]

connector_vars ==
    <<switch_model, ports, poe_ports, previous_data, previous_timestamp,
      loaded_switch_metadata, client_hash, gambit, authentication_failure_count,
      login_page_response, cookie, offline_mode, soft_failures>>

\* The device changes what it answers on one probe URL.  The record of the
\* last operation is dropped with every change of the device, so that last
\* always describes an operation that saw the present device.
device_probe ==
    \E url \in ProbeUrls, r \in ProbeResponses :
        /\ device' = [device EXCEPT !.probe[url] = r]
        /\ last' = NoOperation("device")
        /\ UNCHANGED <<connector_vars, now, api_lock, executor>>

\* the operation ended as res
Operation(op, poe_port, state, res) ==
    \E ended \in {res} :
        /\ SetConnector(ended.c)
        /\ last' = Last(op, poe_port, state, ended)
        /\ UNCHANGED <<now, device, api_lock, executor>>

\* NetgearSwitchConnector.autodetect_model
autodetect_model ==
    Operation("autodetect_model", 0, None, AutodetectModel(Connector, device))

\* NetgearSwitchConnector.get_unique_id
get_unique_id ==
    Operation("get_unique_id", 0, None, GetUniqueId(Connector, device))

\* NetgearSwitchConnector.turn_on_offline_mode
turn_on_offline_mode ==
    Operation("turn_on_offline_mode", 0, None,
              Result([Connector EXCEPT !.offline_mode = TRUE], "return", None))

\* NetgearSwitchConnector.turn_on_online_mode
turn_on_online_mode ==
    Operation("turn_on_online_mode", 0, None,
              Result([Connector EXCEPT !.offline_mode = FALSE], "return", None))

(***************************************************************************)
(* Autodetection: a connector as constructed, probing devices              *)
(***************************************************************************)
Next ==
    \/ device_probe
    \/ autodetect_model
    \/ get_unique_id
    \/ turn_on_offline_mode
    \/ turn_on_online_mode

Spec ==
    Init /\ [][Next]_vars

(***************************************************************************)
(* Login and control: a connector as get_api returns it, with its model    *)
(* detected, before or after a first poll has loaded the metadata          *)
(***************************************************************************)
AuthModels ==
    {"GS305EP", "GS308E", "GS316EP"}

ControlModels ==
    {"GS305EP", "GS308E"}

\* the answers to the login POST of a re-login
ReloginResponses ==
    { ConnectionError,
      OkWithCookie("SID"),
      Ok([NoPage EXCEPT !.text = InvalidPasswordText]),
      Ok([NoPage EXCEPT !.text = MaximumSessionsText]),
      Ok(RedirectPage) }

PoePortArgs ==
    {1, 5}

SwitchStateArgs ==
    {"on", "off", "blink"}

\* a device of the model that answers its login page on every probe URL
DeviceOfModel(name) ==
    [InitialDevice EXCEPT !.probe = [url \in ProbeUrls |-> Ok(ModelPage(name))]]

\* the connector after autodetect_model on that device, and after a poll
\* that loaded the metadata
Detected(name, polled) ==
    LET c == AutodetectModel(Constructed, DeviceOfModel(name)).c
    IN  IF polled
        THEN [c EXCEPT !.loaded_switch_metadata = TRUE,
                       !.client_hash = parse_client_hash(name, InfoPage)]
        ELSE c

InitControl ==
    \E name \in ControlModels, polled \in BOOLEAN :
        /\ HasConnector(Detected(name, polled))
        /\ now = 0
        /\ NoJobs
        /\ device = DeviceOfModel(name)
        /\ last = Last("autodetect_model", 0, None,
                       AutodetectModel(Constructed, DeviceOfModel(name)))

\* the device changes what it answers on the probe URLs
device_login_page ==
    \E r \in {ConnectionError, NotFound,
              Ok(ModelPage(SwitchModel(switch_model).MODEL_NAME))} :
        /\ device' = [device EXCEPT !.probe = [url \in ProbeUrls |-> r]]
        /\ last' = NoOperation("device")
        /\ UNCHANGED <<connector_vars, now, api_lock, executor>>

\* the device changes what it answers to the login POST
device_login ==
    \E r \in LoginResponses :
        /\ device' = [device EXCEPT !.login = r]
        /\ last' = NoOperation("device")
        /\ UNCHANGED <<connector_vars, now, api_lock, executor>>

\* the device changes what it answers to the request of an operation; what
\* it answers to the repeated request is only read after a redirect
device_answer ==
    \E first \in PageResponses, retry \in PageResponses :
        /\ is_authenticated(first.page) => retry = first
        /\ device' = [device EXCEPT !.answer = first, !.retry = retry]
        /\ last' = NoOperation("device")
        /\ UNCHANGED <<connector_vars, now, api_lock, executor>>

\* NetgearSwitchConnector.get_login_cookie
get_login_cookie ==
    \E res \in {GetLoginCookie(Connector, device)} :
        /\ res.c.soft_failures.total <= MaxSoftFailures
        /\ Operation("get_login_cookie", 0, None, res)

\* an operation that may log in again ended as res
Relogin(op, poe_port, state, res) ==
    \E ended \in {res} :
        /\ ended.c.soft_failures.total <= MaxReloginFailures
        /\ Operation(op, poe_port, state, ended)

\* the device changes what it answers to the login POST of a re-login
device_relogin ==
    \E r \in ReloginResponses :
        /\ device' = [device EXCEPT !.login = r]
        /\ last' = NoOperation("device")
        /\ UNCHANGED <<connector_vars, now, api_lock, executor>>

\* NetgearSwitchConnector.fetch_page
fetch_page ==
    Relogin("fetch_page", 0, None,
            FetchPage(Connector, device, device.answer, device.retry))

\* NetgearSwitchConnector.switch_poe_port
switch_poe_port ==
    \E poe_port \in PoePortArgs, state \in SwitchStateArgs :
        Relogin("switch_poe_port", poe_port, state,
                  SwitchPoePort(Connector, device, poe_port, state))

\* NetgearSwitchConnector.turn_on_poe_port
turn_on_poe_port ==
    \E poe_port \in PoePortArgs :
        Relogin("turn_on_poe_port", poe_port, "on",
                  SwitchPoePort(Connector, device, poe_port, "on"))

\* NetgearSwitchConnector.turn_off_poe_port
turn_off_poe_port ==
    \E poe_port \in PoePortArgs :
        Relogin("turn_off_poe_port", poe_port, "off",
                  SwitchPoePort(Connector, device, poe_port, "off"))

\* NetgearSwitchConnector.power_cycle_poe_port
power_cycle_poe_port ==
    \E poe_port \in PoePortArgs :
        Relogin("power_cycle_poe_port", poe_port, None,
                  PowerCyclePoePort(Connector, device, poe_port))

\* NetgearSwitchConnector.switch_leds
switch_leds ==
    \E state \in SwitchStateArgs :
        Relogin("switch_leds", 0, state, SwitchLeds(Connector, device, state))

\* NetgearSwitchConnector.reboot
reboot ==
    Relogin("reboot", 0, None, Reboot(Connector, device))

InitLogin ==
    \E name \in AuthModels :
        /\ HasConnector(Detected(name, FALSE))
        /\ now = 0
        /\ NoJobs
        /\ device = DeviceOfModel(name)
        /\ last = Last("autodetect_model", 0, None,
                       AutodetectModel(Constructed, DeviceOfModel(name)))

NextLogin ==
    \/ device_login_page
    \/ device_login
    \/ get_login_cookie
    \/ turn_on_offline_mode
    \/ turn_on_online_mode

SpecLogin ==
    InitLogin /\ [][NextLogin]_vars

NextControl ==
    \/ device_relogin
    \/ device_answer
    \/ switch_poe_port
    \/ turn_on_poe_port
    \/ turn_off_poe_port
    \/ power_cycle_poe_port
    \/ switch_leds

SpecControl ==
    InitControl /\ [][NextControl]_vars

NextFetch ==
    \/ device_relogin
    \/ device_answer
    \/ fetch_page
    \/ reboot

SpecFetch ==
    InitControl /\ [][NextFetch]_vars

(***************************************************************************)
(* Polling: a GS305EP as get_api returns it, polled while its counters,    *)
(* the link of its port 1 and the pages it serves change                   *)
(***************************************************************************)
\* the seconds that pass before a poll reads _start_time
ElapsedSteps ==
    {1, 5}

\* counters of the ports 1 and 2 on a statistics page; the other ports
\* count nothing
Counters(rx1, tx1, crc1, rx2, tx2) ==
    [rx |-> <<rx1, rx2, 0, 0, 0>>, tx |-> <<tx1, tx2, 0, 0, 0>>,
     crc |-> <<crc1, 0, 0, 0, 0>>]

StatisticsReadings ==
    { Counters(0, 100, 1, 70, 30),
      Counters(100, 100, 1, 70, 30),
      Counters(150, 110, 4, 70, 40),
      Counters(2000000100, 110, 4, 70, 40),
      Counters(-1, 110, 4, 70, 40) }

\* the rows of a port status page with port 2 up and the ports 3 to 5 down
PortStatusRows(port1) ==
    <<port1, "Up", "Down", "Down", "Down">>

NoFailure ==
    [kind |-> "none", response |-> NotFound]

Failures ==
    { NoFailure,
      [kind |-> "statistics", response |-> NotFound],
      [kind |-> "poe_config", response |-> ConnectionError] }

InitPoll ==
    /\ HasConnector(Detected("GS305EP", FALSE))
    /\ now = 0
    /\ NoJobs
    /\ device = [DeviceOfModel("GS305EP") EXCEPT
                   !.statistics = Counters(0, 100, 1, 70, 30),
                   !.port_status = PortStatusRows("Up"),
                   !.failing = NoFailure]
    /\ last = Last("autodetect_model", 0, None,
                   AutodetectModel(Constructed, DeviceOfModel("GS305EP")))

\* the counters of the device change
device_statistics ==
    \E reading \in StatisticsReadings :
        /\ device' = [device EXCEPT !.statistics = reading]
        /\ last' = NoOperation("device")
        /\ UNCHANGED <<connector_vars, now, api_lock, executor>>

\* the link of port 1 changes
device_port_status ==
    \E port1 \in {"Up", "Down"} :
        /\ device' = [device EXCEPT !.port_status = PortStatusRows(port1)]
        /\ last' = NoOperation("device")
        /\ UNCHANGED <<connector_vars, now, api_lock, executor>>

\* the device stops or resumes serving a kind of page
device_failing ==
    \E failure \in Failures :
        /\ device' = [device EXCEPT !.failing = failure]
        /\ last' = NoOperation("device")
        /\ UNCHANGED <<connector_vars, now, api_lock, executor>>

\* NetgearSwitchConnector.get_switch_infos, some seconds after the last step
get_switch_infos ==
    \E elapsed \in ElapsedSteps :
        /\ now + elapsed <= MaxTime
        /\ now' = now + elapsed
        /\ \E res \in {GetSwitchInfos(Connector, device, now + elapsed)} :
               /\ SetConnector(res.c)
               /\ last' = Last("get_switch_infos", 0, None, res)
        /\ UNCHANGED <<device, api_lock, executor>>

NextPoll ==
    \/ device_statistics
    \/ device_port_status
    \/ device_failing
    \/ get_switch_infos
    \/ turn_on_offline_mode
    \/ turn_on_online_mode

SpecPoll ==
    InitPoll /\ [][NextPoll]_vars

(***************************************************************************)
(* Pages of a poll: a GS305EP, fully or only partially supported, polled   *)
(* while the pages it serves fail and its LEDs and PoE ports are switched. *)
(* It answers                                                              *)
(* the request of a control operation with SUCCESS and a login POST with   *)
(* 404.                                                                    *)
(***************************************************************************)
\* a page that is not found, a PoE page the device does not answer, and a
\* PoE page answered with the redirect to the login page
PageFailures ==
    { NoFailure,
      [kind |-> "port_status", response |-> NotFound],
      [kind |-> "statistics", response |-> NotFound],
      [kind |-> "poe_config", response |-> ConnectionError],
      [kind |-> "poe_config", response |-> Ok(RedirectPage)],
      [kind |-> "poe_status", response |-> Ok(RedirectPage)] }

InitPages ==
    \E cls \in {"GS305EP", PartiallySupported} :
        /\ HasConnector([Detected("GS305EP", FALSE) EXCEPT !.switch_model = cls])
        /\ now = 0
        /\ NoJobs
        /\ device = [DeviceOfModel("GS305EP") EXCEPT
                       !.statistics = Counters(100, 100, 1, 70, 30),
                       !.port_status = PortStatusRows("Up"),
                       !.login = NotFound,
                       !.answer = Ok([NoPage EXCEPT !.body = SUCCESS]),
                       !.retry = Ok([NoPage EXCEPT !.body = SUCCESS]),
                       !.failing = NoFailure]
        /\ last = Last("autodetect_model", 0, None,
                       AutodetectModel(Constructed, DeviceOfModel("GS305EP")))

\* the device stops or resumes serving a kind of page
device_page_failing ==
    \E failure \in PageFailures :
        /\ device' = [device EXCEPT !.failing = failure]
        /\ last' = NoOperation("device")
        /\ UNCHANGED <<connector_vars, now, api_lock, executor>>

\* the counters of the device grow
device_counting ==
    /\ device' = [device EXCEPT !.statistics = Counters(150, 110, 4, 70, 40)]
    /\ last' = NoOperation("device")
    /\ UNCHANGED <<connector_vars, now, api_lock, executor>>

\* NetgearSwitchConnector.delete_login_cookie
delete_login_cookie ==
    Operation("delete_login_cookie", 0, None, DeleteLoginCookie(Connector, device))

NextPages ==
    \/ device_counting
    \/ device_page_failing
    \/ get_switch_infos
    \/ switch_leds
    \/ turn_on_poe_port
    \/ turn_off_poe_port

SpecPages ==
    InitPages /\ [][NextPages]_vars

(***************************************************************************)
(* Offline mode: the GS305EP of the polls, switched between online and     *)
(* offline mode, detected again, logging in and out, polled and its LEDs   *)
(* switched, while                                                         *)
(* the pages it serves, or the files that hold them, come and go           *)
(***************************************************************************)
NextOffline ==
    \/ device_login_page
    \/ device_failing
    \/ get_switch_infos
    \/ switch_leds
    \/ get_login_cookie
    \/ delete_login_cookie
    \/ autodetect_model
    \/ turn_on_offline_mode
    \/ turn_on_online_mode

SpecOffline ==
    InitPoll /\ [][NextOffline]_vars

(***************************************************************************)
(* Rows of the pages: a GS305EP (GS30xSeries parser) and a GS308E (base    *)
(* parser) polled while the port statistics page and the port status page  *)
(* show a row less or a row more than the model has ports.  The port       *)
(* status page of the GS308E always shows one row per port.                *)
(***************************************************************************)
\* the device serves its pages with these numbers of rows; row i of the
\* statistics page counts 10 * i received, 20 * i sent and i CRC errors
device_rows ==
    \E statistics_rows \in {ports - 1, ports, ports + 1},
       status_rows \in {ports - 1, ports, ports + 1} :
        /\ switch_model # ""
        /\ create_page_parser(switch_model) = "PageParser" => status_rows = ports
        /\ device' = [device EXCEPT
                        !.statistics = [rx |-> [i \in 1..statistics_rows |-> 10 * i],
                                        tx |-> [i \in 1..statistics_rows |-> 20 * i],
                                        crc |-> [i \in 1..statistics_rows |-> i]],
                        !.port_status = [i \in 1..status_rows |-> "Up"],
                        !.failing = NoFailure]
        /\ last' = NoOperation("device")
        /\ UNCHANGED <<connector_vars, now, api_lock, executor>>

NextRows ==
    \/ device_rows
    \/ get_switch_infos

SpecRows ==
    InitControl /\ [][NextRows]_vars

(***************************************************************************)
(* netgear_switch.py, netgear_entities.py: the platform adapter.  The      *)
(* coordinator polls through async_get_switch_infos, the PoE entities call *)
(* the connector from async_turn_on, async_turn_off and async_press.  Each *)
(* call runs as a job of the executor (hass.async_add_executor_job), which *)
(* runs the jobs it is given in parallel threads; a job is in executor     *)
(* from the time it is handed over until its call returns, and the call    *)
(* takes effect on the connector when it returns.                          *)
(***************************************************************************)
\* the PoE port of the entities
EntityPort ==
    1

\* HomeAssistantNetgearSwitch.async_get_switch_infos up to its await:
\* api_lock is taken and get_switch_infos handed to the executor
async_get_switch_infos ==
    /\ ~api_lock
    /\ "get_switch_infos" \notin executor
    /\ api_lock' = TRUE
    /\ executor' = executor \cup {"get_switch_infos"}
    /\ UNCHANGED <<connector_vars, now, device, last>>

\* an entity hands a connector call to the executor
EntityCall(op) ==
    /\ op \notin executor
    /\ executor' = executor \cup {op}
    /\ UNCHANGED <<connector_vars, now, device, last, api_lock>>

\* NetgearPOESwitchEntity.async_turn_on
async_turn_on ==
    EntityCall("turn_on_poe_port")

\* NetgearPOESwitchEntity.async_turn_off
async_turn_off ==
    EntityCall("turn_off_poe_port")

\* NetgearPoEPowerCycleButtonEntity.async_press
async_press ==
    EntityCall("power_cycle_poe_port")

\* the call of a job returns: get_switch_infos some seconds after the last
\* step, and async_get_switch_infos leaves its "async with"
executor_job ==
    \E op \in executor, elapsed \in ElapsedSteps :
        \E res \in {CASE op = "get_switch_infos" ->
                           GetSwitchInfos(Connector, device, now + elapsed)
                      [] op = "turn_on_poe_port" ->
                           SwitchPoePort(Connector, device, EntityPort, "on")
                      [] op = "turn_off_poe_port" ->
                           SwitchPoePort(Connector, device, EntityPort, "off")
                      [] OTHER ->
                           PowerCyclePoePort(Connector, device, EntityPort)} :
            /\ op = "get_switch_infos" => now + elapsed <= MaxTime
            /\ op # "get_switch_infos" => elapsed = 1
            /\ now' = IF op = "get_switch_infos" THEN now + elapsed ELSE now
            /\ SetConnector(res.c)
            /\ last' = Last(op, IF op = "get_switch_infos" THEN 0 ELSE EntityPort,
                            None, res)
            /\ executor' = executor \ {op}
            /\ api_lock' = IF op = "get_switch_infos" THEN FALSE ELSE api_lock
            /\ UNCHANGED device

NextAdapter ==
    \/ async_get_switch_infos
    \/ async_turn_on
    \/ async_turn_off
    \/ async_press
    \/ executor_job
    \/ device_counting

SpecAdapter ==
    InitPages /\ [][NextAdapter]_vars
(***************************************************************************)
(* Properties of autodetection, checked under Spec                         *)
(***************************************************************************)
\* the probe request autodetect_model made last, as the connector saw it
LastProbe ==
    request(offline_mode, ProbeAnswer(device, AUTODETECT_TEMPLATES[last.probes]))

\* autodetect_model ended on a probe page it could read
ProbePageRead ==
    /\ last.op = "autodetect_model"
    /\ last.probes \in 1..Len(AUTODETECT_TEMPLATES)
    /\ LastProbe.exc = ""
    /\ has_ok_status(LastProbe)

\* the models all of whose checks pass on the page
MatchingModels(page) ==
    {name \in ModelNames : AllChecksPassed(Model(name), page)}

PreviousCounters ==
    {"traffic_rx", "traffic_tx", "crc_errors", "speed_io", "sum_rx", "sum_tx"}

SpecMatches(mdl, page) ==
    \/ AllChecksPassed(mdl, page)
    \/ \E i \in DOMAIN mdl.CHECKS_AND_RESULTS :
           /\ mdl.CHECKS_AND_RESULTS[i].func = "parse_login_switchinfo_tag"
           /\ check_successful(mdl.CHECKS_AND_RESULTS[i], page)

\* C9: a probe page that matches two models makes autodetect_model raise
\* MultipleModelsDetectedError; it never selects one of them.
C9_TwoMatchesRaise ==
    (ProbePageRead
     /\ Cardinality({name \in ModelNames : SpecMatches(Model(name), LastProbe.page)}) >= 2)
        => last.outcome = "MultipleModelsDetectedError"

\* the switch-info tag check of the model passes on the page
SwitchInfoTagPasses(mdl, page) ==
    \E i \in DOMAIN mdl.CHECKS_AND_RESULTS :
        /\ mdl.CHECKS_AND_RESULTS[i].func = "parse_login_switchinfo_tag"
        /\ check_successful(mdl.CHECKS_AND_RESULTS[i], page)

\* C17: a model whose switch-info tag check passes on the probe page is
\* counted as a match even when its other checks fail on that page: it is
\* the model selected, or one of several matches that make the call raise
\* MultipleModelsDetectedError.
C17_SwitchInfoTagCounts ==
    ProbePageRead =>
        \A name \in ModelNames :
            SwitchInfoTagPasses(Model(name), LastProbe.page) =>
                \/ last.outcome = "return" /\ last.value = name
                \/ last.outcome = "MultipleModelsDetectedError"

\* the device answers the probe URL with HTTP 200 and a page no model matches
NoMatchOn(url) ==
    \/ ProbeAnswer(device, url).status_code # 200
    \/ Len(matched_models(ProbeAnswer(device, url).page)) = 0

\* the values the checks of the registry expect of a parser function
ExpectedOf(func) ==
    UNION {Model(name).CHECKS_AND_RESULTS[i].expected :
             <<name, i>> \in {<<n, j>> \in ModelNames \X (1..3) :
                                /\ j <= Len(Model(n).CHECKS_AND_RESULTS)
                                /\ Model(n).CHECKS_AND_RESULTS[j].func = func}}

\* every probe page the checks of the registry can tell apart: with and
\* without the rand input, with each title, switch info text and first
\* script value some model expects, with another value and with none
EveryProbePage ==
    {[LoginPage(rand, title, switchinfo) EXCEPT !.script = script] :
        rand \in {None, Rand},
        title \in ExpectedOf("parse_login_title_tag")
                    \cup {None, "NETGEAR GS308E", "GS999"},
        switchinfo \in ExpectedOf("parse_login_switchinfo_tag") \cup {None, "GS999"},
        script \in ExpectedOf("parse_first_script_tag") \cup {None, "GS999"}}

MatchedOnEveryPage ==
    {Len(matched_models(page)) : page \in EveryProbePage}

\* C28: on every probe page at most one model of the registry is appended
\* to matched_models, and no autodetection ends with
\* MultipleModelsDetectedError.
C28_AtMostOneModelMatches ==
    /\ MatchedOnEveryPage \subseteq {0, 1}
    /\ last.outcome # "MultipleModelsDetectedError"

\* autodetect_model selected GS308E on a page whose switch info text is the
\* one GS108E expects
C28_Witness ==
    /\ ProbePageRead
    /\ last.outcome = "return"
    /\ switch_model = "GS308E"
    /\ LastProbe.page.switchinfo = SwitchInfoGS308ESmart
    /\ LastProbe.page.switchinfo \in ExpectedOf("parse_login_switchinfo_tag")

\* C10: autodetect_model raises SwitchModelNotDetectedError exactly when
\* every probe URL fails to return HTTP 200 or returns a page that matches
\* no model, and then it has tried every URL and selected no model.
C10_NotDetectedExactlyWhenNoMatch ==
    last.op = "autodetect_model" =>
        /\ (last.outcome = "SwitchModelNotDetectedError")
             <=> (\A i \in DOMAIN AUTODETECT_TEMPLATES : NoMatchOn(AUTODETECT_TEMPLATES[i]))
        /\ last.outcome = "SwitchModelNotDetectedError"
             => last.probes = Len(AUTODETECT_TEMPLATES)

(***************************************************************************)
(* Properties of the control operations, checked under SpecControl         *)
(***************************************************************************)
\* C1: each of turn_on_poe_port, turn_off_poe_port and power_cycle_poe_port
\* raises InvalidPoEPortError for a port that is not a PoE port of the model.
C1_InvalidPoEPortRaises ==
    (last.op \in {"turn_on_poe_port", "turn_off_poe_port", "power_cycle_poe_port"}
     /\ last.poe_port \notin poe_ports)
        => last.outcome = "InvalidPoEPortError"

PublicOperations ==
    {"get_switch_infos", "turn_on_poe_port", "turn_off_poe_port",
     "power_cycle_poe_port", "switch_leds", "reboot"}

\* C3: no public connector operation ends with NotLoggedInError; when the
\* device still answers with the login redirect after the re-login and the
\* retry, the operation ends with LoginFailedError.
C3_NotLoggedInNeverEscapes ==
    last.op \in PublicOperations =>
        /\ last.outcome # "NotLoggedInError"
        /\ (last.relogin_outcome = "True" /\ last.requests = 2
            /\ ~is_authenticated(device.retry.page) /\ device.retry.status_code = 200)
               => last.outcome = "LoginFailedError"

(***************************************************************************)
(* Properties of fetch_page, checked under SpecFetch                       *)
(***************************************************************************)
\* the device answers with the login-redirect marker
Redirected(answer) ==
    answer.status_code = 200 /\ ~is_authenticated(answer.page)

\* C4: in one fetch_page call a login-redirect answer causes exactly one
\* re-login followed by one retry; the call makes at most two requests and
\* one login, and ends with LoginFailedError when the re-login fails or the
\* retry is redirected again.
C4_OneReloginOneRetry ==
    (last.op = "fetch_page" /\ ~offline_mode) =>
        /\ last.requests <= 2
        /\ last.relogins <= 1
        /\ last.login_requests <= 1
        /\ Redirected(device.answer) =>
              /\ last.relogins = 1
              /\ last.relogin_outcome = "True" => last.requests = 2
              /\ (last.relogin_outcome # "True" \/ Redirected(device.retry))
                    => last.outcome = "LoginFailedError"

(***************************************************************************)
(* Properties of get_login_cookie, checked under SpecLogin                 *)
(***************************************************************************)
\* the answer to the login POST of the last get_login_cookie call
LastLogin ==
    request(offline_mode, LoginAnswer(Connector, device))

\* the last call was a get_login_cookie whose login completed and found
\* neither a Gambit tag nor an allowed cookie
SoftFailed ==
    /\ last.op = "get_login_cookie"
    /\ last.login_requests = 1
    /\ LastLogin.exc = ""
    /\ LastLogin.status_code = 200
    /\ parse_gambit_tag(LastLogin.page) = None
    /\ FoundCookie(SwitchModel(switch_model), LastLogin) = None

\* the answer reports that the maximum number of sessions is reached
MaximumSessions(response) ==
    InText("maximum", response.page.text) /\ InText("session", response.page.text)

\* C2 as stated: the first two soft authentication failures in a row return
\* False and the third raises LoginFailedError, after one login request.
C2_ThirdSoftFailureRaises ==
    SoftFailed =>
        /\ soft_failures.total \in 1..2
              => (last.outcome = "return" /\ last.value = "False")
        /\ soft_failures.total = 3
              => (last.outcome = "LoginFailedError" /\ last.login_requests = 1)

\* C2: of the soft authentication failures in a row whose answer does not
\* report the maximum number of sessions, the first two return False and
\* the third raises LoginFailedError after the one login request of its
\* call; a soft failure whose answer reports the maximum number of sessions
\* raises MaxSessionsError.
C2_ThirdCountedSoftFailureRaises ==
    SoftFailed =>
        /\ MaximumSessions(LastLogin) => last.outcome = "MaxSessionsError"
        /\ (~MaximumSessions(LastLogin) /\ soft_failures.counted \in 1..2)
              => (last.outcome = "return" /\ last.value = "False")
        /\ (~MaximumSessions(LastLogin) /\ soft_failures.counted = 3)
              => (last.outcome = "LoginFailedError" /\ last.login_requests = 1)

\* the third counted soft failure in a row, with a maximum-sessions answer
\* among the failures
C2_Witness ==
    /\ SoftFailed
    /\ ~MaximumSessions(LastLogin)
    /\ soft_failures.counted = 3
    /\ soft_failures.total = 4
    /\ last.outcome = "LoginFailedError"

\* C30 as stated: the soft-failure counter goes back to 0 only in a
\* get_login_cookie call that logs in, and once it has reached
\* MAX_AUTHENTICATION_FAILURES every further call that ends in a soft
\* failure raises LoginFailedError.
C30_EverySoftFailureRaisesAgain ==
    [][/\ authentication_failure_count' < authentication_failure_count
            => (last'.op = "get_login_cookie" /\ last'.value = "True")
       /\ (SoftFailed' /\ authentication_failure_count >= MAX_AUTHENTICATION_FAILURES)
            => last'.outcome = "LoginFailedError"]_vars

\* C30: the soft-failure counter goes back to 0 only in a get_login_cookie
\* call that logs in; once it has reached MAX_AUTHENTICATION_FAILURES, every
\* further call that ends in a soft failure whose answer does not report the
\* maximum number of sessions counts the failure and raises LoginFailedError,
\* and one whose answer reports it raises MaxSessionsError and leaves the
\* counter where it is.
C30_CountedSoftFailureRaisesAgain ==
    [][/\ authentication_failure_count' < authentication_failure_count
            => /\ last'.op = "get_login_cookie"
               /\ last'.value = "True"
               /\ authentication_failure_count' = 0
       /\ (SoftFailed' /\ authentication_failure_count >= MAX_AUTHENTICATION_FAILURES)
            => IF MaximumSessions(LastLogin')
               THEN /\ last'.outcome = "MaxSessionsError"
                    /\ authentication_failure_count' = authentication_failure_count
               ELSE /\ last'.outcome = "LoginFailedError"
                    /\ authentication_failure_count' = authentication_failure_count + 1]_vars

\* a counted soft failure after the counter has reached
\* MAX_AUTHENTICATION_FAILURES, raising LoginFailedError again
C30_Witness ==
    /\ SoftFailed
    /\ ~MaximumSessions(LastLogin)
    /\ authentication_failure_count > MAX_AUTHENTICATION_FAILURES
    /\ last.outcome = "LoginFailedError"

\* C14: a login that yields neither cookie nor Gambit token and whose
\* response text mentions both "maximum" and "session" raises
\* MaxSessionsError, not LoginFailedError, whatever the count of soft
\* failures, and leaves the counter unchanged.
C14_MaxSessionsNotCounted ==
    [][(SoftFailed' /\ MaximumSessions(LastLogin')) =>
          /\ last'.outcome = "MaxSessionsError"
          /\ authentication_failure_count' = authentication_failure_count]_vars

\* the maximum sessions answer met a counter that was already 2
C14_Witness ==
    /\ SoftFailed
    /\ MaximumSessions(LastLogin)
    /\ authentication_failure_count = 2
    /\ last.outcome = "MaxSessionsError"

(***************************************************************************)
(* Properties of the rate engine, checked under SpecPoll                   *)
(***************************************************************************)
\* the last call was a poll that returned a snapshot; the device shows the
\* counters the poll read
Polled ==
    last.op = "get_switch_infos" /\ last.outcome = "return"

\* a poll before the last one has left a sample: some counter of it is not 0
HasPreviousSample ==
    \E key \in {"sum_rx", "sum_tx"}, q \in 1..ports :
        last.snapshot.previous[key][q] # 0

\* the delta of a counter and its rate as C5 states them, for counters that
\* stay below the high-pass limits
DeltaReported(current, previous, delta, rate) ==
    (previous >= 0 /\ current >= previous /\ current - previous <= hp_max_speed) =>
        /\ delta = current - previous
        /\ last.snapshot.sample_time > 0
              => rate = (current - previous) \div last.snapshot.sample_time

\* C5: for every port whose current counter is not below the previous one,
\* previous = 0 included, a poll reports the delta current - previous and,
\* for an elapsed time above 0, the rate delta / elapsed.
C5_DeltaIsCurrentMinusPrevious ==
    (Polled /\ HasPreviousSample) =>
        \A p \in 1..ports :
            /\ DeltaReported(device.statistics.rx[p], last.snapshot.previous.traffic_rx[p],
                             last.snapshot.port[p].traffic_rx, last.snapshot.port[p].speed_rx)
            /\ DeltaReported(device.statistics.tx[p], last.snapshot.previous.traffic_tx[p],
                             last.snapshot.port[p].traffic_tx, last.snapshot.port[p].speed_tx)

\* the cumulative value of a port reported and kept is the previous one
PreviousKept(current, previous, reported, kept, rate) ==
    current <= 0 => (reported = previous /\ kept = previous /\ rate >= 0)

\* C6: when a port is up and its parsed rx or tx counter is <= 0, the
\* cumulative value reported for the port and kept as its new previous
\* value is the previous poll's cumulative value, and its rate is not
\* negative.
C6_NonPositiveFallsBack ==
    Polled =>
        \A p \in 1..ports :
            last.snapshot.status[p] = "on" =>
                /\ PreviousKept(device.statistics.rx[p], last.snapshot.previous.sum_rx[p],
                                last.snapshot.port[p].sum_rx, previous_data.sum_rx[p],
                                last.snapshot.port[p].speed_rx)
                /\ PreviousKept(device.statistics.tx[p], last.snapshot.previous.sum_tx[p],
                                last.snapshot.port[p].sum_tx, previous_data.sum_tx[p],
                                last.snapshot.port[p].speed_tx)

\* the deltas and rates of the ports stay within the limit for the elapsed
\* time (from 3 s on the limit is above every counter read)
WithinHighpass(elapsed) ==
    \A p \in 1..ports :
        /\ last.snapshot.sample_time < 3
              => /\ last.snapshot.port[p].traffic_rx <= hp_max_speed * elapsed
                 /\ last.snapshot.port[p].traffic_tx <= hp_max_speed * elapsed
        /\ last.snapshot.port[p].speed_rx <= hp_max_speed
        /\ last.snapshot.port[p].speed_tx <= hp_max_speed

\* a port whose rx counter grew by 2e9 bytes within 1 s reports 1e9
ClampedExample ==
    \A p \in 1..ports :
        (/\ last.snapshot.sample_time = 1
         /\ last.snapshot.previous.traffic_rx[p] # 0
         /\ device.statistics.rx[p] - last.snapshot.previous.traffic_rx[p] = 2 * hp_max_speed)
            => /\ last.snapshot.port[p].traffic_rx = hp_max_speed
               /\ last.snapshot.port[p].speed_rx = hp_max_speed

\* C7 as stated: in every snapshot each traffic delta is at most 1e9 x
\* elapsed and each rx/tx rate at most 1e9; a delta above that over 1 s is
\* reported as 1e9.
C7_DeltaWithinElapsed ==
    Polled => (WithinHighpass(last.snapshot.sample_time) /\ ClampedExample)

\* C7: in every snapshot each traffic delta is at most 1e9 x elapsed, and
\* at most 1e9 when the elapsed time is 0, and each rx/tx rate is at most
\* 1e9; a delta above that over 1 s is reported as 1e9.
C7_DeltaWithinElapsedOrOneSecond ==
    Polled => (WithinHighpass(Max(last.snapshot.sample_time, 1)) /\ ClampedExample)

\* port 1 received 2e9 bytes within 1 s
C7_Witness ==
    /\ Polled
    /\ last.snapshot.sample_time = 1
    /\ last.snapshot.previous.traffic_rx[1] = 100
    /\ device.statistics.rx[1] = 2000000100
    /\ last.snapshot.port[1].traffic_rx = hp_max_speed
    /\ last.snapshot.port[1].speed_rx = hp_max_speed

\* C18: in every snapshot returned after any sequence of polls, also when
\* a counter rolled over or was reset (current < previous), every per-port
\* traffic delta, CRC error delta and rx, tx and io rate is >= 0.
C18_DeltasAndRatesNotNegative ==
    Polled =>
        \A p \in 1..ports :
            /\ last.snapshot.port[p].traffic_rx >= 0
            /\ last.snapshot.port[p].traffic_tx >= 0
            /\ last.snapshot.port[p].crc_errors >= 0
            /\ last.snapshot.port[p].speed_rx >= 0
            /\ last.snapshot.port[p].speed_tx >= 0
            /\ last.snapshot.port[p].speed_io >= 0

\* the rx counter of a port fell below the previous sample and its delta
\* and rate are reported as 0
C18_Witness ==
    /\ Polled
    /\ last.snapshot.sample_time > 0
    /\ \E p \in 1..ports :
           /\ last.snapshot.previous.traffic_rx[p] > 0
           /\ device.statistics.rx[p] < last.snapshot.previous.traffic_rx[p]
           /\ last.snapshot.port[p].traffic_rx = 0
           /\ last.snapshot.port[p].speed_rx = 0

\* C27: in every snapshot the io rate of each port is the sum of its rx
\* rate and its tx rate, also when the high-pass filter has capped a rate.
C27_IoRateIsSumOfRates ==
    Polled =>
        \A p \in 1..ports :
            last.snapshot.port[p].speed_io =
                last.snapshot.port[p].speed_rx + last.snapshot.port[p].speed_tx

\* the values of a key of the ports 1 to n of a snapshot, added up
RECURSIVE TotalOfPorts(_, _)
TotalOfPorts(key, n) ==
    IF n = 0 THEN 0 ELSE TotalOfPorts(key, n - 1) + last.snapshot.port[n][key]

\* C29: in every snapshot each of the sums of traffic_rx, traffic_tx,
\* crc_errors, speed_rx and speed_tx is the sum of the filtered values of
\* the ports, and sum_port_speed_io is sum_port_speed_rx plus
\* sum_port_speed_tx.
C29_SumsAreSumsOfPorts ==
    Polled =>
        /\ last.snapshot.sum_port_traffic_rx = TotalOfPorts("traffic_rx", ports)
        /\ last.snapshot.sum_port_traffic_tx = TotalOfPorts("traffic_tx", ports)
        /\ last.snapshot.sum_port_crc_errors = TotalOfPorts("crc_errors", ports)
        /\ last.snapshot.sum_port_speed_rx = TotalOfPorts("speed_rx", ports)
        /\ last.snapshot.sum_port_speed_tx = TotalOfPorts("speed_tx", ports)
        /\ last.snapshot.sum_port_speed_io =
               last.snapshot.sum_port_speed_rx + last.snapshot.sum_port_speed_tx

\* two ports have sent since the previous poll, one rate is capped
C29_Witness ==
    /\ Polled
    /\ last.snapshot.port[1].traffic_tx > 0
    /\ last.snapshot.port[2].traffic_tx > 0
    /\ last.snapshot.port[1].speed_rx = hp_max_speed
    /\ last.snapshot.sum_port_speed_io > hp_max_speed

\* C19: the first poll after the model is selected (no poll has stamped
\* _previous_timestamp yet) reports a traffic delta of 0 and a rate of 0
\* for every port, whatever counters are read and whatever time has
\* passed, also when the elapsed time is 0.
C19_FirstPollReportsZero ==
    [][(last'.op = "get_switch_infos" /\ last'.outcome = "return"
        /\ previous_timestamp = 0) =>
          \A p \in 1..ports :
              /\ last'.snapshot.port[p].traffic_rx = 0
              /\ last'.snapshot.port[p].traffic_tx = 0
              /\ last'.snapshot.port[p].speed_rx = 0
              /\ last'.snapshot.port[p].speed_tx = 0
              /\ last'.snapshot.port[p].speed_io = 0]_vars

\* a first poll with an elapsed time of 0 read counters above 0
C19_Witness ==
    /\ Polled
    /\ last.snapshot.sample_time = 0
    /\ \A p \in 1..ports : last.snapshot.previous.traffic_tx[p] = 0
    /\ device.statistics.tx[1] > 0
    /\ last.snapshot.port[1].traffic_tx = 0
    /\ last.snapshot.port[1].speed_tx = 0

(***************************************************************************)
(* Polls whose pages fail                                                  *)
(***************************************************************************)
\* the counters of the last poll are the previous sample, stamped with the
\* time of the poll
Persisted ==
    /\ previous_timestamp = now
    /\ previous_data.crc_errors = device.statistics.crc
    /\ \A p \in 1..ports :
           /\ previous_data.sum_rx[p] = last.snapshot.port[p].sum_rx
           /\ previous_data.sum_tx[p] = last.snapshot.port[p].sum_tx

\* the device fails to serve a PoE page that the poll of a fully supported
\* model asks for
PoePageFails ==
    /\ device.failing.kind \in {"poe_config", "poe_status"}
    /\ switch_model = "GS305EP"

\* C11: when the PoE config page or the PoE status page fails during a
\* poll, whatever the failure, get_switch_infos returns a snapshot with the
\* port metrics and the sums, leaves out the PoE fields of that page and
\* keeps the counters read as the previous sample.
C11_PoeFailureTolerated ==
    (last.op = "get_switch_infos" /\ PoePageFails) =>
        /\ Polled
        /\ DOMAIN last.snapshot.port = 1..ports
        /\ device.failing.kind = "poe_config" => last.snapshot.poe_config = "skipped"
        /\ device.failing.kind = "poe_status" => last.snapshot.poe_status = "skipped"
        /\ Persisted

\* the device does not serve the port status page or the port statistics
\* page
CorePageFails ==
    device.failing.kind \in {"port_status", "statistics"}

\* C12: when the port status page or the port statistics page cannot be
\* loaded in a poll, get_switch_infos raises PageNotLoadedError instead of
\* returning a snapshot, and the previous sample and the previous poll
\* timestamp are what they were before the call.
C12_CorePageFailureAborts ==
    [][(last'.op = "get_switch_infos" /\ CorePageFails) =>
          /\ last'.outcome = "PageNotLoadedError"
          /\ last'.snapshot = NoSnapshot
          /\ previous_data' = previous_data
          /\ previous_timestamp' = previous_timestamp]_vars

\* a poll after an earlier sample was aborted by either page
C12_Witness ==
    /\ last.op = "get_switch_infos"
    /\ last.outcome = "PageNotLoadedError"
    /\ CorePageFails
    /\ previous_timestamp > 0
    /\ previous_timestamp < now
    /\ previous_data.crc_errors # device.statistics.crc

(***************************************************************************)
(* Control operations                                                      *)
(***************************************************************************)
ControlOperations ==
    {"turn_on_poe_port", "turn_off_poe_port", "power_cycle_poe_port", "switch_leds"}

\* the last response the operation received had status 200 and the body
\* SUCCESS
SucceededOnDevice ==
    last.response.status_code = 200 /\ last.response.page.body = "SUCCESS"

\* C13: turn_on_poe_port, turn_off_poe_port, power_cycle_poe_port and
\* switch_leds return True only if a response to their request had status
\* 200 and the body SUCCESS; for every other response that does not raise
\* they return False.
C13_TrueOnlyOnSuccess ==
    (last.op \in ControlOperations /\ last.outcome = "return") =>
        /\ last.value \in {"True", "False"}
        /\ last.value = "True" <=> SucceededOnDevice

\* a power cycle answered with status 200 and another body returned False
C13_Witness ==
    /\ last.op = "power_cycle_poe_port"
    /\ last.outcome = "return"
    /\ last.value = "False"
    /\ last.requests > 0
    /\ last.response.status_code = 200

\* the control operation was called with a state that is neither on nor
\* off, or a PoE operation with a port that is no PoE port of the model
Rejected(op, poe_port, state) ==
    \/ /\ op \in {"switch_poe_port", "switch_leds"}
       /\ state \notin SWITCH_STATES
    \/ /\ op \in {"switch_poe_port", "turn_on_poe_port", "turn_off_poe_port",
                   "power_cycle_poe_port"}
       /\ poe_port \notin poe_ports

\* C26: a control call with an invalid state or with a port that is no PoE
\* port sends no request (no probe, no login page request, no login, no
\* request of the operation) and leaves the cookie, the cached login page,
\* the cached metadata, the previous sample and every other attribute of
\* the connector as they were.
C26_RejectedCallChangesNothing ==
    [][Rejected(last'.op, last'.poe_port, last'.state) =>
          /\ last'.requests = 0
          /\ last'.probes = 0
          /\ last'.login_page_requests = 0
          /\ last'.login_requests = 0
          /\ last'.outcome \in {"InvalidSwitchStateError", "InvalidPoEPortError",
                                "NotImplementedError", "return"}
          /\ last'.outcome = "return" =>
                 (last'.op = "power_cycle_poe_port" /\ last'.value = "False")
          /\ UNCHANGED connector_vars]_vars

\* a connector that holds a cookie and cached metadata rejected a
\* switch_poe_port call for its state
C26_Witness ==
    /\ last.op = "switch_poe_port"
    /\ last.state = "blink"
    /\ last.poe_port \in poe_ports
    /\ last.outcome = "InvalidSwitchStateError"
    /\ cookie # None
    /\ loaded_switch_metadata

\* C20: over any sequence of polls and control operations, a poll (the
\* only step that advances the clock) requests the switch info page only
\* when it finds the metadata cache empty; a poll that finds the metadata
\* cached keeps it and sends no request for the page; and cached metadata
\* is dropped only by a control operation that succeeded.
C20_MetadataFetchedOnce ==
    [][/\ (now' # now) =>
             /\ (last'.info_requests > 0 => ~loaded_switch_metadata)
             /\ loaded_switch_metadata =>
                    (loaded_switch_metadata' /\ last'.info_requests = 0)
       /\ (loaded_switch_metadata /\ ~loaded_switch_metadata') =>
             /\ now' = now
             /\ last'.op \in ControlOperations
             /\ last'.value = "True"]_vars

\* a poll requested the switch info page again: an earlier poll had left a
\* sample, and with it cached metadata, which a control operation dropped
C20_Witness ==
    /\ Polled
    /\ last.info_requests > 0
    /\ loaded_switch_metadata
    /\ \E p \in 1..ports : last.snapshot.previous.sum_rx[p] # 0

\* the device serves the PoE pages of the poll
PoePagesServed ==
    device.failing.kind \notin {"poe_config", "poe_status", "all"}

\* C21: a switch_leds call that returns True leaves the metadata cache
\* empty, and the poll that follows a successful switch_leds,
\* turn_on_poe_port or turn_off_poe_port and returns a snapshot has read
\* the changed state from the device: the switch info page with the LED
\* state after switch_leds, the PoE pages of a supported model that serves
\* them after a PoE call.
C21_MutationInvalidates ==
    [][/\ (last'.op = "switch_leds" /\ last'.value = "True") =>
             ~loaded_switch_metadata'
       /\ (now' # now /\ last.value = "True" /\ last'.outcome = "return") =>
             /\ last.op = "switch_leds" => last'.info_requests > 0
             /\ (/\ last.op \in {"turn_on_poe_port", "turn_off_poe_port"}
                 /\ SwitchModel(switch_model).SUPPORTED
                 /\ PoePagesServed) =>
                    /\ last'.snapshot.poe_config = "fetched"
                    /\ last'.snapshot.poe_status = "fetched"]_vars

\* switch_leds returned True on a connector that a poll had filled the
\* metadata cache of, and has emptied the cache
C21_Witness ==
    /\ last.op = "switch_leds"
    /\ last.value = "True"
    /\ ~loaded_switch_metadata
    /\ previous_timestamp > 0

(***************************************************************************)
(* Offline mode                                                            *)
(***************************************************************************)
\* the login-page check and the login, a poll, a control action, the logout
OfflineOperations ==
    {"get_login_cookie", "get_switch_infos", "switch_leds", "delete_login_cookie"}

\* what reading the file of a URL gives: the page saved for it with status
\* 200, or status 404 when the directory holds no file for it
FileRead(answer) ==
    IF answer.kind = "http" /\ answer.status_code = 200
    THEN [status_code |-> 200, cookies |-> {}, page |-> answer.page]
    ELSE [status_code |-> 404, cookies |-> {}, page |-> NoPage]

\* a response that was read from a file, or no response at all
FromFile(response) ==
    response.status_code \in {0, 200, 404} /\ response.cookies = {}

\* C15: while offline mode is on, no connector operation (login-page check,
\* login, poll, control action, logout) issues a network request: none
\* ends with the connection error or the login redirect of a request, none
\* logs in again, the login page and the response it holds are read from
\* files, and a missing file gives status 404.
C15_OfflineReadsFiles ==
    (offline_mode /\ last.op \in OfflineOperations) =>
        /\ last.outcome \notin {"PageFetcherConnectionError", "NotLoggedInError"}
        /\ last.relogins = 0
        /\ FromFile(last.response)
        /\ FromFile(login_page_response)
        /\ (last.op \in {"switch_leds", "delete_login_cookie"} /\ last.outcome = "return")
              => last.response = FileRead(device.answer)
        /\ (last.op = "get_login_cookie" /\ last.login_requests = 1)
              => (FileRead(device.probe["login.cgi"]).status_code = 404
                     => last.outcome = "LoginFailedError")

\* an offline login found the login page cached and no file for the login
\* URL
C15_Witness ==
    /\ offline_mode
    /\ last.op = "get_login_cookie"
    /\ last.login_requests = 1
    /\ device.probe["login.cgi"] = ConnectionError
    /\ last.outcome = "LoginFailedError"

C22_ModelSelectedOnce ==
    [][switch_model # "" =>
          /\ switch_model' = switch_model
          /\ ports' = ports
          /\ poe_ports' = poe_ports
          /\ now' = now => previous_data' = previous_data]_vars

(***************************************************************************)
(* Rows of the port pages                                                  *)
(***************************************************************************)
PortArrays ==
    {"traffic_rx", "traffic_tx", "crc_errors", "sum_rx", "sum_tx", "speed_io"}

\* the port statistics page shows as many rows as the model has ports, or
\* fewer and the base parser reads it
RowsAccepted ==
    \/ Len(device.statistics.rx) = ports
    \/ /\ Len(device.statistics.rx) < ports
       /\ create_page_parser(switch_model) = "PageParser"

\* C23: every array of the previous sample has as many elements as the
\* model has ports, and a poll of a port statistics page with more rows
\* than ports, or with fewer rows read by another parser than the base
\* parser, ends in an error.
C23_ArraysHavePortsElements ==
    /\ \A key \in PortArrays : Len(previous_data[key]) = ports
    /\ (last.op = "get_switch_infos" /\ ~RowsAccepted) => last.outcome # "return"

\* C24: a poll that returns a snapshot reports one status for each port,
\* and a poll of a port status page that shows another number of rows than
\* the model has ports ends in an error.
C24_OneStatusPerPort ==
    last.op = "get_switch_infos" =>
        /\ last.outcome = "return" => Len(last.snapshot.status) = ports
        /\ Len(device.port_status) # ports => last.outcome # "return"

(***************************************************************************)
(* The platform adapter                                                    *)
(***************************************************************************)
\* C25: the adapter never has two calls on the connector running at the
\* same time: a PoE call of an entity never runs while a poll, or another
\* PoE call, runs.
C25_OperationsSerialized ==
    Cardinality(executor) <= 1

====
